---- MODULE Spec2Model ----
(***************************************************************************)
(* Model of serdo's durable undo store (src/src/undo_store.rs):            *)
(* SqliteUndoStore (facade) + PersisterClient on the caller's thread,      *)
(* PersisterServer on the worker thread, the two mpsc channels between     *)
(* them, and the store directory (db.sqlite tables and the lock file).     *)
(* The bounded in-memory store, InMemoryUndoStore, is modelled next to it   *)
(* (MemSpec).                                                              *)
(***************************************************************************)
EXTENDS Integers, Sequences, FiniteSets, TLC

\* ---------------------------------------------------------------- bounds
\* Total number of commands the caller submits over all sessions.  The k-th
\* submitted command carries the payload k, so every command is distinct.
MaxAdds == 6

\* Options.undo_limit used by every session of the store.
UndoLimit == 2

\* Largest capacity an in-memory store is created with.
MaxCapacity == 3

\* Number of calls made on an in-memory store.
MaxMemOps == 8

\* Stand-in for i64::MAX (TLC integers are 32 bit wide).
MAX_COMMAND_ID == 2147483647

\* The value MAX_COMMAND_ID has in the runs that reach it.
SmallMaxCommandId == 3

\* Number of commands submitted in the session that ends with a drop.
SessionAdds == 3
MaxDiskId == 3
LimitAdds == 4

\* The durable branch scenario: undo limit and number of added commands.
BranchUndoLimit == 5

BranchAdds == 7
SnapUndoLimit == 3
SnapAdds == 8

\* ------------------------------------------------------- generic helpers
Max(S) == CHOOSE x \in S : \A y \in S : y <= x

Min(S) == CHOOSE x \in S : \A y \in S : x <= y

Restrict(f, S) == [x \in S |-> f[x]]

Insert(f, k, v) == [x \in (DOMAIN f) \cup {k} |-> IF x = k THEN v ELSE f[x]]

RECURSIVE Ascending(_)
Ascending(S) == IF S = {} THEN <<>> ELSE <<Min(S)>> \o Ascending(S \ {Min(S)})

RECURSIVE Descending(_)
Descending(S) == IF S = {} THEN <<>> ELSE <<Max(S)>> \o Descending(S \ {Max(S)})

\* Option<T> is modelled as a set with at most one element.
None == {}

Some(x) == {x}

\* ------------------------------------------------- model, commands, codec
\* The model and command of examples/persistent: the model is a buffer of
\* lines, the command Append(txt) pushes txt on redo and removes the last
\* line on undo.  Two models are equal iff the same commands were applied in
\* the same order.
DefaultModel == <<>>

\* What an undo leaves behind when the last line is not the one the command
\* appended (the engine never applies undo in such a position).
OutOfPosition == <<0>>

CmdRedo(cmd, m) == Append(m, cmd)

CmdUndo(cmd, m) ==
    IF Len(m) > 0 /\ m[Len(m)] = cmd
    THEN SubSeq(m, 1, Len(m) - 1)
    ELSE OutOfPosition

\* bincode: the encoded form wraps the value; bytes that are not an encoding
\* (Garbled) do not decode.
Garbled == [junk |-> TRUE]

Serialize(x) == [bin |-> x]

CanDeserialize(b) == "bin" \in DOMAIN b

Deserialize(b) == b.bin

\* ------------------------------------------------------------ the tables
\* A database is [command : id -> bytes, snapshot : id -> bytes,
\*                seq : the rows of cmd_seq_no].
EmptyTable == [x \in {} |-> Garbled]

EmptyDb == [command |-> EmptyTable, snapshot |-> EmptyTable, seq |-> {}]

CmdIds(db) == DOMAIN db.command

SnapIds(db) == DOMAIN db.snapshot

min_max_seq_no(db) ==
    IF CmdIds(db) = {} THEN None
    ELSE Some(<<Min(CmdIds(db)), Max(CmdIds(db))>>)

\* Faulty variant of save_seq_no: the new position is not written to cmd_seq_no.
save_seq_no_NotPersisted(db, seq_no) == db

save_seq_no(db, seq_no) ==
    [db EXCEPT !.seq = IF db.seq = {} THEN {} ELSE {seq_no}]

\* Faulty variant of KeptByTrim: one command more than the limit is kept.
KeptByTrim_OneMore(db, undo_limit) ==
    {id \in CmdIds(db) : Cardinality({j \in CmdIds(db) : j > id}) <= undo_limit}

\* The rows the delete statement of trim_undo_records leaves: the
\* undo_limit greatest command ids.
KeptByTrim(db, undo_limit) ==
    {id \in CmdIds(db) : Cardinality({j \in CmdIds(db) : j > id}) < undo_limit}

\* Faulty variant of trim_undo_records: nothing is deleted.
trim_undo_records_NoTrim(db, undo_limit) == db

trim_undo_records(db, undo_limit) ==
    [db EXCEPT !.command = Restrict(db.command, KeptByTrim(db, undo_limit))]

get_last_snapshot_id(db) ==
    IF SnapIds(db) = {} THEN None ELSE Some(Max(SnapIds(db)))

trim_snapshots(db) ==
    IF SnapIds(db) = {} THEN db
    ELSE [db EXCEPT !.snapshot = Restrict(db.snapshot, {Max(SnapIds(db))})]

save_snapshot(db, ser_model, seq_no) ==
    [db EXCEPT !.snapshot = Insert(db.snapshot, seq_no, ser_model)]

\* ------------------------------------------------------- restore (open)
\* Results are [ok |-> TRUE, ...] or [ok |-> FALSE, err |-> <error kind>].
Fail(kind) == [ok |-> FALSE, err |-> kind]

\* The row loops of restore_model / load_without_snapshot: rows is the list
\* of command ids the query returned, cmd_id the id the loop expects next,
\* step +1 (redo, ascending) or -1 (undo, descending).
RECURSIVE ReplayRows(_, _, _, _, _)
ReplayRows(db, rows, cmd_id, step, m) ==
    IF rows = <<>> THEN [ok |-> TRUE, model |-> m]
    ELSE LET id == Head(rows) IN
         IF id # cmd_id THEN Fail("CannotRestoreModel")
         ELSE IF ~CanDeserialize(db.command[id]) THEN Fail("CannotDeserialize")
         ELSE ReplayRows(db, Tail(rows), cmd_id + step, step,
                         IF step = 1
                         THEN CmdRedo(Deserialize(db.command[id]), m)
                         ELSE CmdUndo(Deserialize(db.command[id]), m))

\* Faulty variant of EligibleSnapshots: the lower bound misses the "- 1".
EligibleSnapshots_OffByOne(db) ==
    IF CmdIds(db) = {} THEN {}
    ELSE {s \in SnapIds(db) : s >= Min(CmdIds(db)) /\ s <= Max(CmdIds(db))}

\* The snapshot ids the query of load_last_snapshot selects from.
EligibleSnapshots(db) ==
    IF CmdIds(db) = {} THEN {}
    ELSE {s \in SnapIds(db) : s >= Min(CmdIds(db)) - 1 /\ s <= Max(CmdIds(db))}

load_last_snapshot(db) ==
    IF EligibleSnapshots(db) = {} THEN [ok |-> TRUE, snap |-> None]
    ELSE LET id == Max(EligibleSnapshots(db)) IN
         IF CanDeserialize(db.snapshot[id])
         THEN [ok |-> TRUE, snap |-> Some(<<id, Deserialize(db.snapshot[id])>>)]
         ELSE Fail("CannotDeserialize")

load_without_snapshot(db, cur_seq_no) ==
    ReplayRows(db, Ascending({id \in CmdIds(db) : id <= cur_seq_no}), 1, 1,
               DefaultModel)

\* get_cur_seq_no: the value of the cmd_seq_no row; inserts the row 0 when
\* the table is empty.
get_cur_seq_no(db) == IF db.seq = {} THEN 0 ELSE Max(db.seq)

AfterGetCurSeqNo(db) == IF db.seq = {} THEN [db EXCEPT !.seq = {0}] ELSE db

restore_model(db) ==
    LET cur_seq_no == get_cur_seq_no(db) IN
    IF cur_seq_no = 0 THEN [ok |-> TRUE, cur |-> 0, model |-> DefaultModel]
    ELSE LET ls == load_last_snapshot(db) IN
         IF ~ls.ok THEN ls
         ELSE IF ls.snap = None
         THEN LET r == load_without_snapshot(db, cur_seq_no) IN
              IF r.ok THEN [ok |-> TRUE, cur |-> cur_seq_no, model |-> r.model]
              ELSE r
         ELSE LET sn == CHOOSE x \in ls.snap : TRUE
                  last_snapshot_id == sn[1]
                  r == IF cur_seq_no < last_snapshot_id
                       THEN ReplayRows(db,
                              Descending({id \in CmdIds(db) :
                                 cur_seq_no < id /\ id <= last_snapshot_id}),
                              last_snapshot_id, -1, sn[2])
                       ELSE IF last_snapshot_id < cur_seq_no
                       THEN ReplayRows(db,
                              Ascending({id \in CmdIds(db) :
                                 last_snapshot_id < id /\ id <= cur_seq_no}),
                              last_snapshot_id + 1, 1, sn[2])
                       ELSE [ok |-> TRUE, model |-> sn[2]]
              IN IF r.ok
                 THEN [ok |-> TRUE, cur |-> cur_seq_no, model |-> r.model]
                 ELSE r

\* ------------------------------------------ the worker's write path
\* Faulty variant of DeleteTail: the redo tail stays in the table.
DeleteTail_Nothing(db, seq_no) == db

\* "delete from command where ?1 <= command_id" of add_cmd.
DeleteTail(db, seq_no) ==
    [db EXCEPT !.command =
        Restrict(db.command, {id \in CmdIds(db) : id < seq_no})]

\* Faulty variant of WritePath: every add that evicts a command writes a
\* snapshot.
WritePath_SnapshotEachEviction(db, model1, seq_no, ser_cmd, undo_limit) ==
    LET deleted == {id \in CmdIds(db) : seq_no <= id}
        db1 == DeleteTail(db, seq_no)
        db2 == [db1 EXCEPT !.command = Insert(db1.command, seq_no, ser_cmd)]
        db3 == save_seq_no(db2, seq_no)
        db4 == trim_undo_records(db3, undo_limit)
        removed_count == Cardinality(CmdIds(db3) \ CmdIds(db4))
        db5 == IF removed_count # 0
               THEN save_snapshot(db4, Serialize(model1), seq_no)
               ELSE db4
        db5b == IF deleted # {}
                THEN [db5 EXCEPT !.snapshot = EmptyTable]
                ELSE db5
        db6 == IF deleted # {}
               THEN save_snapshot(db5b, Serialize(model1), seq_no)
               ELSE trim_snapshots(db5)
    IN <<db, db1, db2, db3, db4, db5, db5b, db6>>

\* Faulty variant of WritePath: the snapshots are not deleted when the add
\* has truncated commands.
WritePath_KeepsOldSnapshots(db, model1, seq_no, ser_cmd, undo_limit) ==
    LET deleted == {id \in CmdIds(db) : seq_no <= id}
        db1 == DeleteTail(db, seq_no)
        db2 == [db1 EXCEPT !.command = Insert(db1.command, seq_no, ser_cmd)]
        db3 == save_seq_no(db2, seq_no)
        db4 == trim_undo_records(db3, undo_limit)
        removed_count == Cardinality(CmdIds(db3) \ CmdIds(db4))
        last == get_last_snapshot_id(db4)
        db5 == IF removed_count # 0
                  /\ (last = None \/ \E l \in last : l < seq_no - undo_limit)
               THEN save_snapshot(db4, Serialize(model1), seq_no)
               ELSE db4
        db5b == db5
        db6 == IF deleted # {}
               THEN save_snapshot(db5b, Serialize(model1), seq_no)
               ELSE trim_snapshots(db5)
    IN <<db, db1, db2, db3, db4, db5, db5b, db6>>

\* The statements PersisterServer::add_cmd executes for the command stored
\* under seq_no, each one committed on its own: the tables before the first
\* statement and after each of them, in order
\*   delete the tail, insert the command, save_seq_no, trim_undo_records,
\*   save_snapshot (policy), delete from snapshot, save_snapshot / trim_snapshots.
\* model1 is the worker's model with the command applied.
WritePath(db, model1, seq_no, ser_cmd, undo_limit) ==
    LET deleted == {id \in CmdIds(db) : seq_no <= id}
        db1 == DeleteTail(db, seq_no)
        db2 == [db1 EXCEPT !.command = Insert(db1.command, seq_no, ser_cmd)]
        db3 == save_seq_no(db2, seq_no)
        db4 == trim_undo_records(db3, undo_limit)
        removed_count == Cardinality(CmdIds(db3) \ CmdIds(db4))
        last == get_last_snapshot_id(db4)
        db5 == IF removed_count # 0
                  /\ (last = None \/ \E l \in last : l < seq_no - undo_limit)
               THEN save_snapshot(db4, Serialize(model1), seq_no)
               ELSE db4
        db5b == IF deleted # {}
                THEN [db5 EXCEPT !.snapshot = EmptyTable]
                ELSE db5
        db6 == IF deleted # {}
               THEN save_snapshot(db5b, Serialize(model1), seq_no)
               ELSE trim_snapshots(db5)
    IN <<db, db1, db2, db3, db4, db5, db5b, db6>>

\* PersisterServer::add_cmd on a Loaded worker of a build whose
\* MAX_COMMAND_ID is max_id.  The result carries the database and the
\* worker's model replica after the call, and what the function itself has
\* sent: at max_id the row is inserted, AddCmdErr(NeedCompaction) is sent
\* and the function goes on to the end.
add_cmd_with(max_id, db, m, seq_no_arg, ser_cmd, undo_limit) ==
    IF ~CanDeserialize(ser_cmd)
    THEN [ok |-> FALSE, err |-> "CannotDeserialize", db |-> db, model |-> m,
          extra |-> <<>>]
    ELSE
    LET model1 == CmdRedo(Deserialize(ser_cmd), m)
        seq_no == seq_no_arg + 1
        path == WritePath(db, model1, seq_no, ser_cmd, undo_limit)
        extra == IF seq_no = max_id
                 THEN <<[type |-> "AddCmdErr", err |-> "NeedCompaction"]>>
                 ELSE <<>>
    IN [ok |-> TRUE, db |-> path[Len(path)], model |-> model1,
        extra |-> extra]

\* PersisterServer::add_cmd.
add_cmd(db, m, seq_no_arg, ser_cmd, undo_limit) ==
    add_cmd_with(MAX_COMMAND_ID, db, m, seq_no_arg, ser_cmd, undo_limit)

\* ------------------------------------------------------------------ state
VARIABLES
    dbExists,               \* db.sqlite exists in the store directory
    db,                     \* its tables
    lock,                   \* the lock file exists
    srvState,               \* "NoThread", or PersisterServerState: Idle / Loaded
    srvCur,                 \* Loaded.cur_cmd_seq_no
    srvModel,               \* Loaded.model (the worker's replica)
    cmdQ,                   \* channel of PersistCmd, client -> worker
    respQ,                  \* channel of PersistResp, worker -> client
    pc,                     \* where the caller's thread is
    model,                  \* SqliteUndoStore.model (the facade's replica)
    last_seq_no,            \* PersisterClient fields
    last_processed_seq_no,
    min_seq_no,
    max_seq_no,
    nextCmd,                \* payload of the next command the caller submits
    lastOp,                 \* the facade call that returned last, and its result
    undoRun,                \* effective undo() calls since the last other call
    expectModel,            \* facade model at the last error-free drop
    otherOpen,              \* a second store object holds the directory open
    otherRet,               \* result of the second store's last open()
    memModel,               \* InMemoryUndoStore.model
    store,                  \* InMemoryUndoStore.store
    location,               \* InMemoryUndoStore.location
    capacity,               \* store.capacity()
    memHist,                \* the calls made on the in-memory store, in order
    discarded,              \* commands post_cmd truncated from the redo tail
    callCount,              \* SqliteUndoStore.model, the field no command touches
    dest,                   \* the directory save_as copies to
    undo_limit,             \* Options.undo_limit of the session
    before,                 \* model and position when the last two effective
                            \* undo() / redo() since the last add were
                            \* called, latest first
    failedAt,               \* nextCmd when the worker first sent an AddCmdErr
    memCallCount            \* InMemoryUndoStore.model, the same field

vars == <<dbExists, db, lock, srvState, srvCur, srvModel, cmdQ, respQ, pc,
          model, last_seq_no, last_processed_seq_no, min_seq_no, max_seq_no,
          nextCmd, lastOp, undoRun, expectModel, otherOpen, otherRet,
          memModel, store, location, capacity, memHist, discarded,
          callCount, dest, undo_limit, before, failedAt, memCallCount>>

memVars == <<memModel, store, location, capacity, memHist, discarded,
             memCallCount>>

durableVars ==
    <<dbExists, db, lock, srvState, srvCur, srvModel, cmdQ, respQ, pc,
      model, last_seq_no, last_processed_seq_no, min_seq_no, max_seq_no,
      nextCmd, lastOp, undoRun, expectModel, otherOpen, otherRet,
      callCount, dest, undo_limit, before, failedAt>>

diskVars == <<dbExists, db, lock>>

srvVars == <<srvState, srvCur, srvModel>>

clientVars == <<last_seq_no, last_processed_seq_no, min_seq_no, max_seq_no>>

otherVars == <<otherOpen, otherRet>>

Ret(op, ok, k, err) == [op |-> op, ok |-> ok, k |-> k, err |-> err]

\* InMemoryUndoStore::new.  Vec::with_capacity(capacity) allocates room for
\* exactly the requested number of commands.
new(L) ==
    /\ memModel = DefaultModel
    /\ store = <<>>
    /\ location = 0
    /\ capacity = L
    /\ memHist = <<>>
    /\ discarded = {}
    /\ memCallCount = 0

\* No store object is open on the directory; the sessions to come are
\* opened with the undo limit L.
ClosedWith(L) ==
    /\ dbExists = FALSE
    /\ db = EmptyDb
    /\ lock = FALSE
    /\ srvState = "NoThread"
    /\ srvCur = 0
    /\ srvModel = DefaultModel
    /\ cmdQ = <<>>
    /\ respQ = <<>>
    /\ pc = "closed"
    /\ model = DefaultModel
    /\ last_seq_no = 0
    /\ last_processed_seq_no = None
    /\ min_seq_no = None
    /\ max_seq_no = None
    /\ nextCmd = 1
    /\ lastOp = Ret("none", TRUE, 0, "")
    /\ undoRun = 0
    /\ expectModel = None
    /\ otherOpen = FALSE
    /\ otherRet = "none"
    /\ callCount = 0
    /\ dest = [exists |-> FALSE, db |-> EmptyDb, lock |-> FALSE]
    /\ failedAt = None
    /\ undo_limit = L
    /\ before = <<>>

\* No store object is open on the directory.
Closed == ClosedWith(UndoLimit)

Init == Closed /\ new(UndoLimit)

\* ------------------------------------------------ PersisterClient queries
can_undo == \E m \in min_seq_no : m <= last_seq_no

can_redo == \E m \in max_seq_no : last_seq_no < m

saved(processed, last) == \E p \in processed : p = last

\* ------------------------------------------------- opening the directory
\* The Open arm of PersisterServer::start once try_lock has created the lock
\* file: open_existing / create_new, then restore_model.  The result says
\* what is left on disk and what the worker answers.
OpenLocked(exists, d) ==
    LET d0 == IF exists THEN d ELSE EmptyDb
        r  == restore_model(d0)
        d1 == AfterGetCurSeqNo(d0)
    IN IF r.ok
       THEN [ok |-> TRUE, exists |-> TRUE, db |-> d1, lock |-> TRUE,
             cur |-> r.cur, model |-> r.model]
       ELSE [ok |-> FALSE, err |-> r.err, exists |-> TRUE, db |-> d1,
             lock |-> TRUE]

\* Faulty variant of OpenDir: the lock file is opened without create_new, so an
\* existing lock file does not stop the open.
OpenDir_NoCreateNew(exists, d, lk) == OpenLocked(exists, d)

\* open_sqlite (try_lock fails when the lock file exists) followed by the
\* rest of the Open arm.
OpenDir(exists, d, lk) ==
    IF lk
    THEN [ok |-> FALSE, err |-> "CannotLock", exists |-> exists, db |-> d,
          lock |-> lk]
    ELSE OpenLocked(exists, d)

\* SqliteUndoStore::open, up to the blocking recv of PersisterClient::open.
Open ==
    /\ pc = "closed"
    /\ srvState' = "Idle"
    /\ cmdQ' = <<[type |-> "Open"]>>
    /\ respQ' = <<>>
    /\ pc' = "wait_open"
    /\ UNCHANGED <<diskVars, srvCur, srvModel, model, clientVars, nextCmd,
                   lastOp, undoRun, expectModel, otherVars>>
    /\ UNCHANGED <<callCount, dest, undo_limit, before, failedAt>>
    /\ UNCHANGED memVars

\* PersisterServer::start, arm PersistCmd::Open.
ServerOpen ==
    /\ srvState # "NoThread"
    /\ cmdQ # <<>> /\ Head(cmdQ).type = "Open"
    /\ cmdQ' = Tail(cmdQ)
    /\ LET pre == IF srvState = "Loaded"
                  THEN <<[type |-> "OpenErr", err |-> "AlreadyOpened"]>>
                  ELSE <<>>
           o == OpenDir(dbExists, db, lock)
       IN /\ dbExists' = o.exists
          /\ db' = o.db
          /\ lock' = o.lock
          /\ IF o.ok
             THEN /\ respQ' = respQ \o pre \o
                       <<[type |-> "OpenOk",
                          serialized_model |-> Serialize(o.model),
                          seq_no |-> o.cur,
                          min_max_seq_no |-> min_max_seq_no(o.db)]>>
                  /\ srvState' = "Loaded"
                  /\ srvCur' = o.cur
                  /\ srvModel' = o.model
             ELSE /\ respQ' = respQ \o pre \o
                       <<[type |-> "OpenErr", err |-> o.err]>>
                  /\ UNCHANGED srvVars
    /\ UNCHANGED <<pc, model, clientVars, nextCmd, lastOp, undoRun,
                   expectModel, otherVars>>
    /\ UNCHANGED <<callCount, dest, undo_limit, before, failedAt>>
    /\ UNCHANGED memVars

\* PersisterClient::open after recv, and the rest of SqliteUndoStore::open.
\* On an error no client is built: both channel ends of the caller are
\* dropped and the worker leaves its loop.
ClientRecvOpen ==
    /\ pc = "wait_open"
    /\ respQ # <<>>
    /\ LET msg == Head(respQ) IN
       IF msg.type = "OpenOk"
       THEN /\ respQ' = Tail(respQ)
            /\ last_seq_no' = msg.seq_no
            /\ min_seq_no' = {mm[1] : mm \in msg.min_max_seq_no}
            /\ max_seq_no' = {mm[2] : mm \in msg.min_max_seq_no}
            /\ last_processed_seq_no' = None
            /\ model' = Deserialize(msg.serialized_model)
            /\ pc' = "idle"
            /\ lastOp' = Ret("open", TRUE, 0, "")
            /\ UNCHANGED <<cmdQ, srvVars>>
       ELSE /\ respQ' = <<>>
            /\ cmdQ' = <<>>
            /\ srvState' = "NoThread"
            /\ pc' = "closed"
            /\ lastOp' = Ret("open", FALSE, 0,
                             IF msg.type \in {"OpenErr", "AddCmdErr"}
                             THEN msg.err ELSE "CmdSequenceError")
            /\ UNCHANGED <<srvCur, srvModel, model, clientVars>>
    /\ undoRun' = 0
    /\ UNCHANGED <<diskVars, nextCmd, expectModel, otherVars>>
    /\ callCount' = IF Head(respQ).type = "OpenOk" THEN 0 ELSE callCount
    /\ before' = IF Head(respQ).type = "OpenOk" THEN <<>> ELSE before
    /\ UNCHANGED <<dest, undo_limit, failedAt>>
    /\ UNCHANGED memVars

\* ------------------------------------------------ submitting a command
\* Faulty variant of MinAfterAdd: the cached minimum is not advanced when the
\* worker is going to trim the history.
MinAfterAdd_NeverAdvances(min, last, limit) ==
    IF min = None THEN Some(last) ELSE min

\* PersisterClient::add_command: the new min_seq_no.
MinAfterAdd(min, last, limit) ==
    IF min = None THEN Some(last)
    ELSE {IF m + limit <= last THEN last - limit + 1 ELSE m : m \in min}

\* Faulty variant of Submit: the request carries the incremented sequence number.
Submit_SeqAfterIncrement(cmd) ==
    /\ cmdQ' = Append(cmdQ, [type |-> "AddCmd", seq_no |-> last_seq_no + 1,
                             ser_cmd |-> Serialize(cmd)])
    /\ last_seq_no' = last_seq_no + 1
    /\ min_seq_no' = MinAfterAdd(min_seq_no, last_seq_no + 1, undo_limit)
    /\ UNCHANGED <<last_processed_seq_no, max_seq_no>>

\* SqliteUndoStore::_add_cmd + PersisterClient::add_command.
Submit(cmd) ==
    /\ cmdQ' = Append(cmdQ, [type |-> "AddCmd", seq_no |-> last_seq_no,
                             ser_cmd |-> Serialize(cmd)])
    /\ last_seq_no' = last_seq_no + 1
    /\ min_seq_no' = MinAfterAdd(min_seq_no, last_seq_no + 1, undo_limit)
    /\ UNCHANGED <<last_processed_seq_no, max_seq_no>>

\* UndoStore::add_cmd of SqliteUndoStore with the command nextCmd.
AddCmdBody ==
    /\ pc = "idle"
    /\ model' = CmdRedo(nextCmd, model)
    /\ Submit(nextCmd)
    /\ nextCmd' = nextCmd + 1
    /\ lastOp' = Ret("add_cmd", TRUE, undoRun, "")
    /\ undoRun' = 0
    /\ UNCHANGED <<diskVars, srvVars, respQ, pc, expectModel, otherVars>>
    /\ before' = <<>>
    /\ UNCHANGED <<callCount, dest, undo_limit, failedAt>>

\* UndoStore::add_cmd of SqliteUndoStore.
AddCmdCall == nextCmd <= MaxAdds /\ AddCmdBody

\* AddCmd on the durable store alone.
AddCmd == AddCmdCall /\ UNCHANGED memVars

\* Faulty variant of MutateCall: the facade runs redo of the returned
\* command on the model the closure has already changed.
MutateCall_RedoAgain ==
    /\ pc = "idle"
    /\ nextCmd <= MaxAdds
    /\ model' = CmdRedo(nextCmd, Append(model, nextCmd))
    /\ Submit(nextCmd)
    /\ nextCmd' = nextCmd + 1
    /\ lastOp' = Ret("mutate", TRUE, undoRun, "")
    /\ undoRun' = 0
    /\ UNCHANGED <<diskVars, srvVars, respQ, pc, expectModel, otherVars>>
    /\ before' = <<>>
    /\ UNCHANGED <<callCount, dest, undo_limit, failedAt>>

\* UndoStore::mutate of SqliteUndoStore with a closure that applies the
\* change of the command it returns: the closure appends the payload to the
\* model, the Ok arm hands the command to _add_cmd.
MutateCall ==
    /\ pc = "idle"
    /\ nextCmd <= MaxAdds
    /\ model' = Append(model, nextCmd)
    /\ Submit(nextCmd)
    /\ nextCmd' = nextCmd + 1
    /\ lastOp' = Ret("mutate", TRUE, undoRun, "")
    /\ undoRun' = 0
    /\ UNCHANGED <<diskVars, srvVars, respQ, pc, expectModel, otherVars>>
    /\ before' = <<>>
    /\ UNCHANGED <<callCount, dest, undo_limit, failedAt>>

\* Mutate on the durable store alone.
Mutate == MutateCall /\ UNCHANGED memVars

\* PersisterServer::start, arm PersistCmd::AddCmd, of a build whose
\* MAX_COMMAND_ID is max_id.
ServerAddCmdWith(max_id) ==
    /\ srvState # "NoThread"
    /\ cmdQ # <<>> /\ Head(cmdQ).type = "AddCmd"
    /\ cmdQ' = Tail(cmdQ)
    /\ IF srvState = "Idle"
       THEN /\ respQ' = respQ \o <<[type |-> "AddCmdErr", err |-> "NotOpend"],
                                   [type |-> "AddCmdErr", err |-> "NotOpend"]>>
            /\ UNCHANGED <<db, srvVars, failedAt>>
       ELSE LET r == add_cmd_with(max_id, db, srvModel, Head(cmdQ).seq_no,
                                  Head(cmdQ).ser_cmd, undo_limit)
            IN /\ db' = r.db
               /\ failedAt' = IF r.extra # <<>> /\ failedAt = None
                              THEN Some(nextCmd) ELSE failedAt
               /\ srvModel' = r.model
               /\ srvState' = srvState
               /\ IF r.ok
                  THEN /\ srvCur' = Head(cmdQ).seq_no + 1
                       /\ respQ' = respQ \o r.extra \o
                            <<[type |-> "AddCmdOk",
                               seq_no |-> Head(cmdQ).seq_no + 1]>>
                  ELSE /\ srvCur' = srvCur
                       /\ respQ' = respQ \o r.extra \o
                            <<[type |-> "AddCmdErr", err |-> r.err]>>
    /\ UNCHANGED <<dbExists, lock, pc, model, clientVars, nextCmd, lastOp,
                   undoRun, expectModel, otherVars>>
    /\ UNCHANGED <<callCount, dest, undo_limit, before>>
    /\ UNCHANGED memVars

\* PersisterServer::start, arm PersistCmd::AddCmd.
ServerAddCmd == ServerAddCmdWith(MAX_COMMAND_ID)

\* ---------------------------------------------------------- undo / redo
\* Faulty variant of UndoCall: the result of send is not looked at, the caller
\* goes on to recv although the worker is gone.
UndoCall_SendUnchecked ==
    /\ pc = "idle"
    /\ IF can_undo
       THEN /\ cmdQ' = IF srvState = "NoThread" THEN cmdQ
                       ELSE Append(cmdQ, [type |-> "Undo"])
            /\ pc' = "wait_undo"
            /\ UNCHANGED lastOp
       ELSE /\ lastOp' = Ret("undo", FALSE, 0, "")
            /\ UNCHANGED <<cmdQ, pc>>
    /\ UNCHANGED undoRun
    /\ UNCHANGED <<diskVars, srvVars, respQ, model, clientVars, nextCmd,
                   expectModel, otherVars>>
    /\ before' = IF can_undo
                 THEN <<[model |-> model, pos |-> last_seq_no]>>
                      \o SubSeq(before, 1, Min({1, Len(before)}))
                 ELSE before
    /\ UNCHANGED <<callCount, dest, undo_limit, failedAt>>

\* UndoStore::undo of SqliteUndoStore up to the blocking recv.  post_cmd
\* unwraps the result of send: with the worker gone (its receiver dropped)
\* the send fails and the caller panics.
UndoCall ==
    /\ pc = "idle"
    /\ IF can_undo
       THEN IF srvState = "NoThread"
            THEN /\ pc' = "panicked"
                 /\ lastOp' = Ret("undo", FALSE, 0, "SendError")
                 /\ UNCHANGED cmdQ
            ELSE /\ cmdQ' = Append(cmdQ, [type |-> "Undo"])
                 /\ pc' = "wait_undo"
                 /\ UNCHANGED lastOp
       ELSE /\ lastOp' = Ret("undo", FALSE, 0, "")
            /\ UNCHANGED <<cmdQ, pc>>
    /\ UNCHANGED undoRun
    /\ UNCHANGED <<diskVars, srvVars, respQ, model, clientVars, nextCmd,
                   expectModel, otherVars>>
    /\ before' = IF can_undo
                 THEN <<[model |-> model, pos |-> last_seq_no]>>
                      \o SubSeq(before, 1, Min({1, Len(before)}))
                 ELSE before
    /\ UNCHANGED <<callCount, dest, undo_limit, failedAt>>

\* Undo on the durable store alone.
Undo == UndoCall /\ UNCHANGED memVars

\* UndoStore::redo of SqliteUndoStore up to the blocking recv.
RedoCall ==
    /\ pc = "idle"
    /\ IF can_redo
       THEN IF srvState = "NoThread"
            THEN /\ pc' = "panicked"
                 /\ lastOp' = Ret("redo", FALSE, 0, "SendError")
                 /\ UNCHANGED cmdQ
            ELSE /\ cmdQ' = Append(cmdQ, [type |-> "Redo"])
                 /\ pc' = "wait_redo"
                 /\ UNCHANGED lastOp
       ELSE /\ lastOp' = Ret("redo", FALSE, 0, "")
            /\ UNCHANGED <<cmdQ, pc>>
    /\ undoRun' = 0
    /\ UNCHANGED <<diskVars, srvVars, respQ, model, clientVars, nextCmd,
                   expectModel, otherVars>>
    /\ before' = IF can_redo
                 THEN <<[model |-> model, pos |-> last_seq_no]>>
                      \o SubSeq(before, 1, Min({1, Len(before)}))
                 ELSE before
    /\ UNCHANGED <<callCount, dest, undo_limit, failedAt>>

\* Redo on the durable store alone.
Redo == RedoCall /\ UNCHANGED memVars

\* Faulty variant of ServerStep: the worker moves cur but does not apply the command
\* to its model replica.
ServerStep_ModelUntouched(d, cur, m, dir) ==
    LET id == IF dir = -1 THEN cur ELSE cur + 1 IN
    IF id \notin CmdIds(d) THEN Fail("CannotUndoRedo")
    ELSE IF ~CanDeserialize(d.command[id]) THEN Fail("CannotDeserialize")
    ELSE [ok |-> TRUE, model |-> m, cur |-> cur + dir,
          db |-> save_seq_no(d, cur + dir), seq_no |-> cur,
          serialized_command |-> d.command[id]]

\* Faulty variant of ServerStep: the new position is not written to the
\* cmd_seq_no table.
ServerStep_CurNotSaved(d, cur, m, dir) ==
    LET id == IF dir = -1 THEN cur ELSE cur + 1 IN
    IF id \notin CmdIds(d) THEN Fail("CannotUndoRedo")
    ELSE IF ~CanDeserialize(d.command[id]) THEN Fail("CannotDeserialize")
    ELSE [ok |-> TRUE,
          model |-> IF dir = -1 THEN CmdUndo(Deserialize(d.command[id]), m)
                                ELSE CmdRedo(Deserialize(d.command[id]), m),
          cur |-> cur + dir,
          db |-> d,
          seq_no |-> cur,
          serialized_command |-> d.command[id]]

\* Faulty variant of ServerStep: the answer carries the position after the step.
ServerStep_ReplyNewCur(d, cur, m, dir) ==
    LET id == IF dir = -1 THEN cur ELSE cur + 1 IN
    IF id \notin CmdIds(d) THEN Fail("CannotUndoRedo")
    ELSE IF ~CanDeserialize(d.command[id]) THEN Fail("CannotDeserialize")
    ELSE [ok |-> TRUE,
          model |-> IF dir = -1 THEN CmdUndo(Deserialize(d.command[id]), m)
                                ELSE CmdRedo(Deserialize(d.command[id]), m),
          cur |-> cur + dir,
          db |-> save_seq_no(d, cur + dir),
          seq_no |-> cur + dir,
          serialized_command |-> d.command[id]]

\* PersisterServer::undo / redo on a Loaded worker: dir is -1 for undo and
\* +1 for redo.  The command read is the one at cur (undo) or cur + 1 (redo).
ServerStep(d, cur, m, dir) ==
    LET id == IF dir = -1 THEN cur ELSE cur + 1 IN
    IF id \notin CmdIds(d) THEN Fail("CannotUndoRedo")
    ELSE IF ~CanDeserialize(d.command[id]) THEN Fail("CannotDeserialize")
    ELSE [ok |-> TRUE,
          model |-> IF dir = -1 THEN CmdUndo(Deserialize(d.command[id]), m)
                                ELSE CmdRedo(Deserialize(d.command[id]), m),
          cur |-> cur + dir,
          db |-> save_seq_no(d, cur + dir),
          seq_no |-> cur,
          serialized_command |-> d.command[id]]

ServerUndoRedo(kind, dir) ==
    /\ srvState # "NoThread"
    /\ cmdQ # <<>> /\ Head(cmdQ).type = kind
    /\ cmdQ' = Tail(cmdQ)
    /\ IF srvState = "Idle"
       THEN /\ respQ' = respQ \o <<[type |-> kind \o "Err", err |-> "NotOpend"],
                                   [type |-> kind \o "Err", err |-> "NotOpend"]>>
            /\ UNCHANGED <<db, srvVars>>
       ELSE LET r == ServerStep(db, srvCur, srvModel, dir) IN
            IF r.ok
            THEN /\ db' = r.db
                 /\ srvCur' = r.cur
                 /\ srvModel' = r.model
                 /\ srvState' = srvState
                 /\ respQ' = Append(respQ,
                      [type |-> kind \o "Ok", seq_no |-> r.seq_no,
                       serialized_command |-> r.serialized_command])
            ELSE /\ respQ' = Append(respQ,
                      [type |-> kind \o "Err", err |-> r.err])
                 /\ UNCHANGED <<db, srvVars>>
    /\ UNCHANGED <<dbExists, lock, pc, model, clientVars, nextCmd, lastOp,
                   undoRun, expectModel, otherVars>>
    /\ UNCHANGED <<callCount, dest, undo_limit, before, failedAt>>
    /\ UNCHANGED memVars

\* PersisterServer::start, arm PersistCmd::Undo.
ServerUndo == ServerUndoRedo("Undo", -1)

\* PersisterServer::start, arm PersistCmd::Redo.
ServerRedo == ServerUndoRedo("Redo", 1)

\* One iteration of the loop of wait_undo_resp / wait_redo_resp, and when it
\* returns the rest of PersisterClient::undo / redo and of _undo / _redo.
ClientRecvUndoRedo(kind, dir) ==
    /\ pc = IF dir = -1 THEN "wait_undo" ELSE "wait_redo"
    /\ respQ # <<>>
    /\ respQ' = Tail(respQ)
    /\ LET msg == Head(respQ)
           op == IF dir = -1 THEN "undo" ELSE "redo"
       IN
       IF msg.type = "AddCmdOk"
       THEN /\ last_processed_seq_no' = Some(msg.seq_no)
            /\ UNCHANGED <<pc, model, last_seq_no, lastOp, undoRun>>
       ELSE IF msg.type = kind \o "Ok"
       THEN /\ UNCHANGED last_processed_seq_no
            /\ IF msg.seq_no # last_seq_no
               THEN /\ pc' = "panicked"
                    /\ lastOp' = Ret(op, FALSE, 0, "CmdSequenceError")
                    /\ undoRun' = 0
                    /\ UNCHANGED <<model, last_seq_no>>
               ELSE /\ last_seq_no' = last_seq_no + dir
                    /\ IF CanDeserialize(msg.serialized_command)
                       THEN /\ model' =
                                 IF dir = -1
                                 THEN CmdUndo(Deserialize(msg.serialized_command), model)
                                 ELSE CmdRedo(Deserialize(msg.serialized_command), model)
                            /\ pc' = "idle"
                            /\ lastOp' = Ret(op, TRUE, 0, "")
                            /\ undoRun' = IF dir = -1 THEN undoRun + 1 ELSE 0
                       ELSE /\ pc' = "panicked"
                            /\ lastOp' = Ret(op, FALSE, 0, "CannotDeserialize")
                            /\ undoRun' = 0
                            /\ UNCHANGED model
       ELSE /\ last_seq_no' = last_seq_no + dir
            /\ pc' = "panicked"
            /\ lastOp' = Ret(op, FALSE, 0,
                             IF msg.type \in {kind \o "Err", "AddCmdErr"}
                             THEN msg.err ELSE "CmdSequenceError")
            /\ undoRun' = 0
            /\ UNCHANGED <<model, last_processed_seq_no>>
    /\ UNCHANGED <<diskVars, srvVars, cmdQ, min_seq_no, max_seq_no, nextCmd,
                   expectModel, otherVars>>
    /\ UNCHANGED <<callCount, dest, undo_limit, before, failedAt>>
    /\ UNCHANGED memVars

ClientRecvUndo == ClientRecvUndoRedo("Undo", -1)

ClientRecvRedo == ClientRecvUndoRedo("Redo", 1)

\* ------------------------------------------------------ saved / waiting
\* PersisterClient::process_resp on the responses present in the channel:
\* the bookkeeping after the loop, the responses left in the channel, and
\* whether the loop returned an error.
RECURSIVE process_resp(_, _, _)
process_resp(q, lp, mx) ==
    IF q = <<>> THEN [ok |-> TRUE, lp |-> lp, mx |-> mx, rest |-> q, err |-> ""]
    ELSE IF Head(q).type = "AddCmdOk"
    THEN process_resp(Tail(q), Some(Head(q).seq_no), Some(Head(q).seq_no))
    ELSE [ok |-> FALSE, lp |-> lp, mx |-> mx, rest |-> Tail(q),
          err |-> IF Head(q).type = "AddCmdErr" THEN Head(q).err
                  ELSE "CmdSequenceError"]

\* SqliteUndoStore::saved.
Saved ==
    /\ pc = "idle"
    /\ LET r == process_resp(respQ, last_processed_seq_no, max_seq_no) IN
       /\ respQ' = r.rest
       /\ last_processed_seq_no' = r.lp
       /\ max_seq_no' = r.mx
       /\ lastOp' = IF r.ok
                    THEN Ret("saved", saved(r.lp, last_seq_no), 0, "")
                    ELSE Ret("saved", FALSE, 0, r.err)
    /\ undoRun' = 0
    /\ UNCHANGED <<diskVars, srvVars, cmdQ, pc, model, last_seq_no,
                   min_seq_no, nextCmd, expectModel, otherVars>>
    /\ UNCHANGED <<callCount, dest, undo_limit, before, failedAt>>
    /\ UNCHANGED memVars

\* SqliteUndoStore::wait_until_saved is entered.
WaitUntilSaved ==
    /\ pc = "idle"
    /\ pc' = "wait_saved"
    /\ undoRun' = 0
    /\ UNCHANGED <<diskVars, srvVars, cmdQ, respQ, model, clientVars, nextCmd,
                   lastOp, expectModel, otherVars>>
    /\ UNCHANGED <<callCount, dest, undo_limit, before, failedAt>>
    /\ UNCHANGED memVars

\* One iteration of the loop of wait_until_saved: saved().unwrap(), then
\* either return or sleep.
WaitPoll ==
    /\ pc = "wait_saved"
    /\ LET r == process_resp(respQ, last_processed_seq_no, max_seq_no) IN
       /\ respQ' = r.rest
       /\ last_processed_seq_no' = r.lp
       /\ max_seq_no' = r.mx
       /\ IF ~r.ok
          THEN /\ pc' = "panicked"
               /\ lastOp' = Ret("wait_until_saved", FALSE, 0, r.err)
          ELSE IF saved(r.lp, last_seq_no)
          THEN /\ pc' = "idle"
               /\ lastOp' = Ret("wait_until_saved", TRUE, 0, "")
          ELSE UNCHANGED <<pc, lastOp>>
    /\ UNCHANGED <<diskVars, srvVars, cmdQ, model, last_seq_no, min_seq_no,
                   nextCmd, undoRun, expectModel, otherVars>>
    /\ UNCHANGED <<callCount, dest, undo_limit, before, failedAt>>
    /\ UNCHANGED memVars

\* ------------------------------------------------------------- closing
\* Drop for PersisterClient, up to the blocking recv.  A panic of a facade
\* call unwinds through the owner of the store and drops it as well.
Drop ==
    /\ pc \in {"idle", "panicked"}
    /\ cmdQ' = Append(cmdQ, [type |-> "Close"])
    /\ pc' = "wait_close"
    /\ expectModel' = IF pc = "idle" THEN Some(model) ELSE None
    /\ undoRun' = 0
    /\ UNCHANGED <<diskVars, srvVars, respQ, model, clientVars, nextCmd,
                   lastOp, otherVars>>
    /\ before' = <<>>
    /\ UNCHANGED <<callCount, dest, undo_limit, failedAt>>
    /\ UNCHANGED memVars

\* PersisterServer::start, arm PersistCmd::Close: unlock (when Loaded),
\* answer CloseOk and leave the loop.  unlock(..).unwrap() panics when the
\* lock file is gone; the thread then ends without an answer.
ServerClose ==
    /\ srvState # "NoThread"
    /\ cmdQ # <<>> /\ Head(cmdQ).type = "Close"
    /\ cmdQ' = Tail(cmdQ)
    /\ srvState' = "NoThread"
    /\ IF srvState = "Loaded"
       THEN /\ lock' = FALSE
            /\ respQ' = IF lock THEN Append(respQ, [type |-> "CloseOk"])
                        ELSE respQ
       ELSE /\ respQ' = Append(respQ, [type |-> "CloseOk"])
            /\ UNCHANGED lock
    /\ UNCHANGED <<dbExists, db, srvCur, srvModel, pc, model, clientVars,
                   nextCmd, lastOp, undoRun, expectModel, otherVars>>
    /\ UNCHANGED <<callCount, dest, undo_limit, before, failedAt>>
    /\ UNCHANGED memVars

\* One iteration of the loop of Drop for PersisterClient.
ClientRecvClose ==
    /\ pc = "wait_close"
    /\ \/ /\ respQ # <<>>
          /\ respQ' = Tail(respQ)
          /\ IF Head(respQ).type \in {"CloseOk", "CloseErr"}
             THEN /\ pc' = "closed"
                  /\ lastOp' = Ret("drop", TRUE, 0, "")
             ELSE UNCHANGED <<pc, lastOp>>
       \/ /\ respQ = <<>> /\ srvState = "NoThread"
          /\ pc' = "closed"
          /\ lastOp' = Ret("drop", FALSE, 0, "RecvError")
          /\ UNCHANGED respQ
    /\ UNCHANGED <<diskVars, srvVars, cmdQ, model, clientVars, nextCmd,
                   undoRun, expectModel, otherVars>>
    /\ UNCHANGED <<callCount, dest, undo_limit, before, failedAt>>
    /\ UNCHANGED memVars

\* ------------------------------------------------ a second store object
\* SqliteUndoStore::open called for the same directory by another store
\* object, as one step (its caller blocks until its worker has answered).
OtherOpen ==
    /\ ~otherOpen
    /\ LET o == OpenDir(dbExists, db, lock) IN
       /\ dbExists' = o.exists
       /\ db' = o.db
       /\ lock' = o.lock
       /\ otherOpen' = o.ok
       /\ otherRet' = IF o.ok THEN "ok" ELSE o.err
    /\ UNCHANGED <<srvVars, cmdQ, respQ, pc, model, clientVars, nextCmd,
                   lastOp, undoRun, expectModel>>
    /\ UNCHANGED <<callCount, dest, undo_limit, before, failedAt>>
    /\ UNCHANGED memVars

\* The second store object is dropped: Close on its Loaded worker.
OtherDrop ==
    /\ otherOpen
    /\ otherOpen' = FALSE
    /\ otherRet' = "none"
    /\ lock' = FALSE
    /\ UNCHANGED <<dbExists, db, srvVars, cmdQ, respQ, pc, model, clientVars,
                   nextCmd, lastOp, undoRun, expectModel>>
    /\ UNCHANGED <<callCount, dest, undo_limit, before, failedAt>>
    /\ UNCHANGED memVars

\* ------------------------------------------------- the in-memory store
\* InMemoryUndoStore::can_undo / can_redo.
mem_can_undo(loc) == 0 < loc

mem_can_redo(st, loc) == loc < Len(st)

\* Faulty variant of DropOldest: the loop stops one entry too late.
RECURSIVE DropOldest_OffByOne(_, _)
DropOldest_OffByOne(st, cap) ==
    IF cap < Len(st) THEN DropOldest_OffByOne(Tail(st), cap) ELSE st

\* The loop of post_cmd: while store.capacity() <= store.len(), remove(0).
RECURSIVE DropOldest(_, _)
DropOldest(st, cap) ==
    IF cap <= Len(st) THEN DropOldest(Tail(st), cap) ELSE st

\* Faulty variant of post_cmd: the redo tail is not truncated.
post_cmd_NoTruncate(st, loc, cap, cmd) ==
    LET st3 == Append(DropOldest(st, cap), cmd)
    IN [store |-> st3, location |-> Len(st3)]

\* InMemoryUndoStore::post_cmd.
post_cmd(st, loc, cap, cmd) ==
    LET st1 == IF loc < Len(st) THEN SubSeq(st, 1, loc) ELSE st
        st3 == Append(DropOldest(st1, cap), cmd)
    IN [store |-> st3, location |-> Len(st3)]

\* Faulty variant of mem_undo: location is moved back by two.
mem_undo_TwoBack(st, loc, m) ==
    [location |-> loc - 2, model |-> CmdUndo(st[loc], m)]

\* The body of InMemoryUndoStore::undo when can_undo() holds.
mem_undo(st, loc, m) ==
    [location |-> loc - 1, model |-> CmdUndo(st[loc], m)]

\* Faulty variant of mem_redo: location is not advanced.
mem_redo_NoAdvance(st, loc, m) ==
    [location |-> loc, model |-> CmdRedo(st[loc + 1], m)]

\* The body of InMemoryUndoStore::redo when can_redo() holds.
mem_redo(st, loc, m) ==
    [location |-> loc + 1, model |-> CmdRedo(st[loc + 1], m)]

\* The k-th command committed to the in-memory store carries the payload k.
MemNextCmd ==
    1 + Cardinality({i \in DOMAIN memHist : memHist[i] \in {"add_cmd", "mutate"}})

\* What a call of post_cmd(cmd) leaves in store, location and the record of
\* truncated commands.
MemCommit(cmd) ==
    LET r == post_cmd(store, location, capacity, cmd) IN
    /\ store' = r.store
    /\ location' = r.location
    /\ discarded' = discarded \cup {store[i] : i \in location + 1..Len(store)}

\* UndoStore::add_cmd of InMemoryUndoStore.
MemAddCmdCall ==
    /\ Len(memHist) < MaxMemOps
    /\ memModel' = CmdRedo(MemNextCmd, memModel)
    /\ MemCommit(MemNextCmd)
    /\ memHist' = Append(memHist, "add_cmd")
    /\ UNCHANGED <<capacity, memCallCount>>

\* MemAddCmd on the in-memory store alone.
MemAddCmd == MemAddCmdCall /\ UNCHANGED durableVars

\* UndoStore::mutate of InMemoryUndoStore with a closure that applies the
\* change of the command it returns.
MemMutateCall ==
    /\ Len(memHist) < MaxMemOps
    /\ memModel' = Append(memModel, MemNextCmd)
    /\ MemCommit(MemNextCmd)
    /\ memHist' = Append(memHist, "mutate")
    /\ UNCHANGED <<capacity, memCallCount>>

\* MemMutate on the in-memory store alone.
MemMutate == MemMutateCall /\ UNCHANGED durableVars

\* UndoStore::undo of InMemoryUndoStore.
MemUndoCall ==
    /\ Len(memHist) < MaxMemOps
    /\ IF mem_can_undo(location)
       THEN LET r == mem_undo(store, location, memModel) IN
            /\ location' = r.location
            /\ memModel' = r.model
       ELSE UNCHANGED <<location, memModel>>
    /\ memHist' = Append(memHist, "undo")
    /\ UNCHANGED <<store, capacity, discarded, memCallCount>>

\* MemUndo on the in-memory store alone.
MemUndo == MemUndoCall /\ UNCHANGED durableVars

\* UndoStore::redo of InMemoryUndoStore.
MemRedoCall ==
    /\ Len(memHist) < MaxMemOps
    /\ IF mem_can_redo(store, location)
       THEN LET r == mem_redo(store, location, memModel) IN
            /\ location' = r.location
            /\ memModel' = r.model
       ELSE UNCHANGED <<location, memModel>>
    /\ memHist' = Append(memHist, "redo")
    /\ UNCHANGED <<store, capacity, discarded, memCallCount>>

\* MemRedo on the in-memory store alone.
MemRedo == MemRedoCall /\ UNCHANGED durableVars

MemInit == Closed /\ \E L \in 1..MaxCapacity : new(L)

MemNext == MemAddCmd \/ MemMutate \/ MemUndo \/ MemRedo

MemSpec == MemInit /\ [][MemNext]_vars

\* ------------------------------------------ mutate with a failing closure
\* Faulty variant of MutateErrCall: a command is submitted although the closure
\* returned an error.
MutateErrCall_Commits ==
    /\ pc = "idle"
    /\ nextCmd <= MaxAdds
    /\ Submit(nextCmd)
    /\ nextCmd' = nextCmd + 1
    /\ lastOp' = Ret("mutate", FALSE, 0, "CallerError")
    /\ undoRun' = 0
    /\ UNCHANGED <<diskVars, srvVars, respQ, pc, model, expectModel, otherVars>>
    /\ UNCHANGED <<callCount, dest, undo_limit, before, failedAt>>

\* UndoStore::mutate of SqliteUndoStore with a closure that returns an error
\* before it changes the model (as delete_at of examples/persistent does for
\* an invalid index): the error is handed back to the caller.
MutateErrCall ==
    /\ pc = "idle"
    /\ lastOp' = Ret("mutate", FALSE, 0, "CallerError")
    /\ undoRun' = 0
    /\ UNCHANGED <<diskVars, srvVars, cmdQ, respQ, pc, model, clientVars,
                   nextCmd, expectModel, otherVars>>
    /\ UNCHANGED <<callCount, dest, undo_limit, before, failedAt>>

\* UndoStore::mutate of InMemoryUndoStore with the same closure.
MemMutateErrCall ==
    /\ Len(memHist) < MaxMemOps
    /\ memHist' = Append(memHist, "mutate_err")
    /\ UNCHANGED <<memModel, store, location, capacity, discarded,
                   memCallCount>>

\* ------------------------------------------- both variants side by side
\* The same call is made on a durable store and on an in-memory store of
\* capacity UndoLimit; saved() exists on the durable store only.
PairAddCmd == AddCmdCall /\ MemAddCmdCall

PairUndo == UndoCall /\ MemUndoCall

PairRedo == RedoCall /\ MemRedoCall

PairMutateErr == MutateErrCall /\ MemMutateErrCall

PairNext ==
    \/ Open \/ ServerOpen \/ ClientRecvOpen
    \/ PairAddCmd \/ ServerAddCmd
    \/ PairUndo \/ ServerUndo \/ ClientRecvUndo
    \/ PairRedo \/ ServerRedo \/ ClientRecvRedo
    \/ PairMutateErr
    \/ Saved

PairSpec == Init /\ [][PairNext]_vars

\* ------------------------------------------- mutate on both variants
\* Sessions whose commands are all committed through mutate.
PairMutate == MutateCall /\ MemMutateCall

MutateNext ==
    \/ Open \/ ServerOpen \/ ClientRecvOpen
    \/ PairMutate \/ ServerAddCmd
    \/ PairUndo \/ ServerUndo \/ ClientRecvUndo
    \/ PairRedo \/ ServerRedo \/ ClientRecvRedo
    \/ Saved

MutateSpec == Init /\ [][MutateNext]_vars

\* ------------------------------------------------ irreversible_mutate
\* Faulty variant of IrreversibleMutateCall: the change is recorded as a
\* command of the history.
IrreversibleMutateCall_Recorded ==
    /\ pc = "idle"
    /\ callCount' = callCount + 1
    /\ last_seq_no' = last_seq_no + 1
    /\ max_seq_no' = last_seq_no + 1
    /\ lastOp' = Ret("irreversible_mutate", TRUE, callCount + 1, "")
    /\ undoRun' = 0
    /\ UNCHANGED <<diskVars, srvVars, cmdQ, respQ, pc, model,
                   last_processed_seq_no, min_seq_no, nextCmd, expectModel,
                   otherVars, dest, undo_limit, before,
                   failedAt>>

\* UndoStore::irreversible_mutate of SqliteUndoStore: f(&mut self.model) and
\* nothing else.  f is call_count += 1 of examples/irreversible_mutate, a
\* field no command reads or writes; its new value is what f returns.
IrreversibleMutateCall ==
    /\ pc = "idle"
    /\ callCount' = callCount + 1
    /\ lastOp' = Ret("irreversible_mutate", TRUE, callCount + 1, "")
    /\ undoRun' = 0
    /\ UNCHANGED <<diskVars, srvVars, cmdQ, respQ, pc, model, clientVars,
                   nextCmd, expectModel, otherVars, dest, undo_limit, before,
                   failedAt>>

\* UndoStore::irreversible_mutate of InMemoryUndoStore with the same f.
MemIrreversibleMutateCall ==
    /\ Len(memHist) < MaxMemOps
    /\ memHist' = Append(memHist, "irreversible_mutate")
    /\ memCallCount' = memCallCount + 1
    /\ UNCHANGED <<memModel, store, location, capacity, discarded>>

PairIrreversibleMutate == IrreversibleMutateCall /\ MemIrreversibleMutateCall

IrrevNext ==
    \/ Open \/ ServerOpen \/ ClientRecvOpen
    \/ PairAddCmd \/ ServerAddCmd
    \/ PairUndo \/ ServerUndo \/ ClientRecvUndo
    \/ PairRedo \/ ServerRedo \/ ClientRecvRedo
    \/ PairIrreversibleMutate
    \/ Saved

IrrevSpec == Init /\ [][IrrevNext]_vars

\* ------------------------------------------------------------- save_as
\* SqliteUndoStore::save_as: std::fs::copy of base_dir/db.sqlite to
\* to/db.sqlite.  No request is sent to the worker and no other file is
\* copied.  The destination is a fresh directory, as the tempdir of
\* persistent_tests::can_save_as.
SaveAs ==
    /\ pc = "idle"
    /\ ~dest.exists
    /\ IF dbExists
       THEN /\ dest' = [dest EXCEPT !.exists = TRUE, !.db = db]
            /\ lastOp' = Ret("save_as", TRUE, 0, "")
       ELSE /\ dest' = dest
            /\ lastOp' = Ret("save_as", FALSE, 0, "CannotCopyStore")
    /\ undoRun' = 0
    /\ UNCHANGED <<diskVars, srvVars, cmdQ, respQ, pc, model, clientVars,
                   nextCmd, expectModel, otherVars, callCount, failedAt,
                   undo_limit, before>>
    /\ UNCHANGED memVars

SaveAsNext ==
    \/ Open \/ ServerOpen \/ ClientRecvOpen
    \/ AddCmd \/ ServerAddCmd
    \/ Undo \/ ServerUndo \/ ClientRecvUndo
    \/ Redo \/ ServerRedo \/ ClientRecvRedo
    \/ Saved
    \/ SaveAs

SaveAsSpec == Init /\ [][SaveAsNext]_vars

\* ------------------------------------------ a statement of the worker fails
\* PersisterServer::start, arm PersistCmd::AddCmd, when db.exec returns an
\* error (disk full, I/O error) at one statement of add_cmd: cmd.redo has
\* changed the worker's replica, the statements before the failing one are
\* committed, cur_cmd_seq_no is not assigned and AddCmdErr is sent.  The
\* worker stays in its loop.  One failure is injected per behaviour.
ServerAddCmdIoError ==
    /\ srvState = "Loaded"
    /\ failedAt = None
    /\ cmdQ # <<>> /\ Head(cmdQ).type = "AddCmd"
    /\ cmdQ' = Tail(cmdQ)
    /\ LET model1 == CmdRedo(Deserialize(Head(cmdQ).ser_cmd), srvModel)
           path == WritePath(db, model1, Head(cmdQ).seq_no + 1,
                             Head(cmdQ).ser_cmd, undo_limit)
       IN /\ \E i \in 1..(Len(path) - 1) : db' = path[i]
          /\ srvModel' = model1
    /\ respQ' = Append(respQ, [type |-> "AddCmdErr", err |-> "Sqlite"])
    /\ failedAt' = Some(nextCmd)
    /\ UNCHANGED <<dbExists, lock, srvState, srvCur, pc, model, clientVars,
                   nextCmd, lastOp, undoRun, expectModel, otherVars,
                   callCount, dest, undo_limit, before>>
    /\ UNCHANGED memVars

IoFaultNext ==
    \/ Open \/ ServerOpen \/ ClientRecvOpen
    \/ AddCmd \/ ServerAddCmd \/ ServerAddCmdIoError
    \/ Undo \/ ServerUndo \/ ClientRecvUndo
    \/ Redo \/ ServerRedo \/ ClientRecvRedo
    \/ Saved

IoFaultSpec == Init /\ [][IoFaultNext]_vars

\* ------------------------------------------ reaching MAX_COMMAND_ID
\* add_cmd of the facade while last_seq_no + 1 does not overflow.
SmallAddCmd == last_seq_no < SmallMaxCommandId /\ AddCmd

SmallServerAddCmd == ServerAddCmdWith(SmallMaxCommandId)

\* A store of a build whose MAX_COMMAND_ID is SmallMaxCommandId.
SmallNext ==
    \/ Open \/ ServerOpen \/ ClientRecvOpen
    \/ SmallAddCmd \/ SmallServerAddCmd
    \/ Undo \/ ServerUndo \/ ClientRecvUndo
    \/ Redo \/ ServerRedo \/ ClientRecvRedo
    \/ Saved

SmallSpec == Init /\ [][SmallNext]_vars

\* ------------------------------------------ the durable branch scenario
\* Add(1) .. Add(6), undo, undo, Add(7), drop, open again, on a store with
\* undo limit BranchUndoLimit; saved() may be polled between the calls.
BranchInit == ClosedWith(BranchUndoLimit) /\ new(BranchUndoLimit)

BranchAdd ==
    /\ expectModel = None
    /\ \/ nextCmd < BranchAdds
       \/ nextCmd = BranchAdds /\ last_seq_no = BranchAdds - 3
    /\ AddCmdBody
    /\ UNCHANGED memVars

BranchUndo ==
    /\ expectModel = None
    /\ nextCmd = BranchAdds /\ last_seq_no > BranchAdds - 3
    /\ Undo

BranchDrop ==
    /\ expectModel = None
    /\ nextCmd = BranchAdds + 1
    /\ Drop

BranchNext ==
    \/ Open \/ ServerOpen \/ ClientRecvOpen
    \/ BranchAdd \/ ServerAddCmd
    \/ BranchUndo \/ ServerUndo \/ ClientRecvUndo
    \/ Saved
    \/ BranchDrop \/ ServerClose \/ ClientRecvClose

BranchSpec == BranchInit /\ [][BranchNext]_vars

\* ------------------------------------------- the snapshot scenario
\* persistent_tests::snapshots_are_created: Add(1) .. Add(8) on a store with
\* undo limit SnapUndoLimit, no undo; saved() may be polled between the calls.
SnapInit == ClosedWith(SnapUndoLimit) /\ new(SnapUndoLimit)

SnapAdd ==
    /\ nextCmd <= SnapAdds
    /\ AddCmdBody
    /\ UNCHANGED memVars

SnapNext ==
    \/ Open \/ ServerOpen \/ ClientRecvOpen
    \/ SnapAdd \/ ServerAddCmd
    \/ Saved

SnapSpec == SnapInit /\ [][SnapNext]_vars

\* ------------------------------------ every call of the in-memory store
MemIrreversibleMutate == MemIrreversibleMutateCall /\ UNCHANGED durableVars

MemFullNext == MemNext \/ MemIrreversibleMutate

MemFullSpec == MemInit /\ [][MemFullNext]_vars

\* --------------------------------------------------------- specification
Worker == ServerOpen \/ ServerAddCmd \/ ServerUndo \/ ServerRedo \/ ServerClose

Next ==
    \/ Open \/ ServerOpen \/ ClientRecvOpen
    \/ AddCmd \/ Mutate \/ ServerAddCmd
    \/ Undo \/ ServerUndo \/ ClientRecvUndo
    \/ Redo \/ ServerRedo \/ ClientRecvRedo
    \/ Saved \/ WaitUntilSaved \/ WaitPoll
    \/ Drop \/ ServerClose \/ ClientRecvClose
    \/ OtherOpen \/ OtherDrop

Spec == Init /\ [][Next]_vars

\* The worker thread runs whenever it has a request, and a caller blocked in
\* recv or in the polling loop of wait_until_saved keeps running.
Fairness ==
    /\ WF_vars(Worker)
    /\ WF_vars(ClientRecvOpen \/ ClientRecvUndo \/ ClientRecvRedo
                 \/ ClientRecvClose)
    /\ WF_vars(WaitPoll)

LiveSpec == Init /\ [][Next]_vars /\ Fairness

\* ------------------------------------------ one session, opened and dropped
\* SqliteUndoStore::open on a directory no store has used before.
FirstOpen == lastOp.op = "none" /\ Open

SessionAddCmd == nextCmd <= SessionAdds /\ AddCmd

SessionNext ==
    \/ FirstOpen \/ ServerOpen \/ ClientRecvOpen
    \/ SessionAddCmd \/ ServerAddCmd
    \/ Undo \/ ServerUndo \/ ClientRecvUndo
    \/ Redo \/ ServerRedo \/ ClientRecvRedo
    \/ Saved
    \/ Drop \/ ServerClose \/ ClientRecvClose

\* The worker thread runs whenever a request is waiting, and a caller
\* blocked in recv() runs when a response is there.
SessionFairness ==
    /\ WF_vars(Worker)
    /\ WF_vars(ClientRecvOpen \/ ClientRecvUndo \/ ClientRecvRedo
                 \/ ClientRecvClose)

SessionSpec == Init /\ [][SessionNext]_vars /\ SessionFairness

\* ----------------------------------- sessions with different undo limits
\* Options::with_undo_limit: the next open is given another undo limit, from
\* 1 to UndoLimit + 1.
ChangeLimit ==
    /\ pc = "closed"
    /\ \E L \in 1..(UndoLimit + 1) : L # undo_limit /\ undo_limit' = L
    /\ UNCHANGED <<diskVars, srvVars, cmdQ, respQ, pc, model, clientVars,
                   nextCmd, lastOp, undoRun, expectModel, otherVars>>
    /\ UNCHANGED <<callCount, dest, before, failedAt>>
    /\ UNCHANGED memVars

LimitAddCmd == nextCmd <= LimitAdds /\ AddCmd

LimitNext ==
    \/ ChangeLimit
    \/ Open \/ ServerOpen \/ ClientRecvOpen
    \/ LimitAddCmd \/ ServerAddCmd
    \/ Undo \/ ServerUndo \/ ClientRecvUndo
    \/ Redo \/ ServerRedo \/ ClientRecvRedo
    \/ Saved
    \/ Drop \/ ServerClose \/ ClientRecvClose

LimitSpec == Init /\ [][LimitNext]_vars

\* ------------------------------------------- the worker thread ends early
\* The worker thread panics inside PersisterServer::add_cmd while the store
\* is open (rows.next().unwrap() of get_last_snapshot_id, or the redo of the
\* command): the statements executed so far stay on disk, the thread unwinds
\* and drops its ends of both channels.  Requests still queued are lost;
\* responses already sent can still be received.
WorkerDies ==
    /\ srvState = "Loaded"
    /\ pc \in {"idle", "wait_undo", "wait_redo"}
    /\ cmdQ # <<>> /\ Head(cmdQ).type = "AddCmd"
    /\ CanDeserialize(Head(cmdQ).ser_cmd)
    /\ LET path == WritePath(db,
                     CmdRedo(Deserialize(Head(cmdQ).ser_cmd), srvModel),
                     Head(cmdQ).seq_no + 1, Head(cmdQ).ser_cmd, undo_limit)
       IN \E i \in 1..Len(path) : db' = path[i]
    /\ srvState' = "NoThread"
    /\ cmdQ' = <<>>
    /\ UNCHANGED <<dbExists, lock, srvCur, srvModel, respQ, pc, model,
                   clientVars, nextCmd, lastOp, undoRun, expectModel,
                   otherVars>>
    /\ UNCHANGED <<callCount, dest, undo_limit, before, failedAt>>
    /\ UNCHANGED memVars

\* UndoStore::add_cmd of SqliteUndoStore: redo on the facade's model, then
\* _add_cmd; with the worker gone the send of post_cmd fails and the caller
\* panics.
DeathAddCmd ==
    IF srvState = "NoThread"
    THEN /\ pc = "idle"
         /\ nextCmd <= SessionAdds
         /\ model' = CmdRedo(nextCmd, model)
         /\ nextCmd' = nextCmd + 1
         /\ pc' = "panicked"
         /\ lastOp' = Ret("add_cmd", FALSE, 0, "SendError")
         /\ UNCHANGED <<diskVars, srvVars, cmdQ, respQ, clientVars, undoRun,
                        expectModel, otherVars>>
         /\ UNCHANGED <<callCount, dest, undo_limit, before, failedAt>>
         /\ UNCHANGED memVars
    ELSE SessionAddCmd

\* wait_undo_resp / wait_redo_resp, arm Err of recv(): the channel is empty
\* and the worker's sender is dropped; the error is printed and the loop goes
\* back to recv(), which fails again: from here on the caller repeats this
\* iteration and nothing changes any more.
RecvErr ==
    /\ pc \in {"wait_undo", "wait_redo"}
    /\ srvState = "NoThread" /\ respQ = <<>>
    /\ pc' = IF pc = "wait_undo" THEN "wait_undo_err" ELSE "wait_redo_err"
    /\ UNCHANGED <<diskVars, srvVars, cmdQ, respQ, model, clientVars, nextCmd,
                   lastOp, undoRun, expectModel, otherVars>>
    /\ UNCHANGED <<callCount, dest, undo_limit, before, failedAt>>
    /\ UNCHANGED memVars

DeathNext ==
    \/ FirstOpen \/ ServerOpen \/ ClientRecvOpen
    \/ DeathAddCmd \/ ServerAddCmd
    \/ Undo \/ ServerUndo \/ ClientRecvUndo
    \/ Redo \/ ServerRedo \/ ClientRecvRedo
    \/ Saved
    \/ WorkerDies \/ RecvErr

\* The worker thread runs whenever a request is waiting, and a caller in
\* the loop of wait_undo_resp / wait_redo_resp keeps running.
DeathFairness ==
    /\ WF_vars(Worker)
    /\ WF_vars(ClientRecvOpen \/ ClientRecvUndo \/ ClientRecvRedo)
    /\ WF_vars(RecvErr)

DeathSpec == Init /\ [][DeathNext]_vars /\ DeathFairness

\* The store file is damaged while no store has it open: one command row no
\* longer decodes (for instance the command type changed between versions).
Tamper ==
    /\ ~lock /\ dbExists /\ pc = "closed"
    /\ \E id \in CmdIds(db) :
          /\ db.command[id] # Garbled
          /\ db' = [db EXCEPT !.command[id] = Garbled]
    /\ UNCHANGED <<dbExists, lock, srvVars, cmdQ, respQ, pc, model,
                   clientVars, nextCmd, lastOp, undoRun, expectModel,
                   otherVars>>
    /\ UNCHANGED <<callCount, dest, undo_limit, before, failedAt>>
    /\ UNCHANGED memVars

FaultNext == Next \/ Tamper

FaultSpec == Init /\ [][FaultNext]_vars

\* ------------------------------------------- opening an arbitrary file
\* The db.sqlite files restore_model is run on: any set of command rows with
\* ids up to MaxDiskId (the row k holds the command with payload k), any
\* position cur in 1..MaxDiskId, and no snapshot or one snapshot row with an
\* id S in 0..MaxDiskId that holds the model of the commands 1..S.
DiskStates ==
    {[command |-> [id \in I |-> Serialize(id)], snapshot |-> sn, seq |-> {cur}] :
        I \in SUBSET (1..MaxDiskId),
        sn \in {EmptyTable} \cup
               {[x \in {S} |-> Serialize([i \in 1..S |-> i])] : S \in 0..MaxDiskId},
        cur \in 1..MaxDiskId}

\* A db.sqlite written elsewhere is put into the directory no store has used.
PlaceStore ==
    /\ pc = "closed" /\ ~dbExists /\ ~lock
    /\ dbExists' = TRUE
    /\ \E d \in DiskStates : db' = d
    /\ UNCHANGED <<lock, srvVars, cmdQ, respQ, pc, model,
                   clientVars, nextCmd, lastOp, undoRun, expectModel,
                   otherVars>>
    /\ UNCHANGED <<callCount, dest, undo_limit, before, failedAt>>
    /\ UNCHANGED memVars

RestoreNext == PlaceStore \/ Open \/ ServerOpen \/ ClientRecvOpen

RestoreSpec == Init /\ [][RestoreNext]_vars

\* The process is killed while the worker is inside the write path of the
\* AddCmd at the head of the request channel: the statements executed so far
\* stay on disk, the store object, both threads and the channels are gone,
\* and the lock file is still in the directory.
Crash ==
    /\ srvState = "Loaded"
    /\ cmdQ # <<>> /\ Head(cmdQ).type = "AddCmd"
    /\ CanDeserialize(Head(cmdQ).ser_cmd)
    /\ LET path == WritePath(db,
                     CmdRedo(Deserialize(Head(cmdQ).ser_cmd), srvModel),
                     Head(cmdQ).seq_no + 1, Head(cmdQ).ser_cmd, undo_limit)
       IN \E i \in 1..Len(path) : db' = path[i]
    /\ srvState' = "NoThread"
    /\ srvCur' = 0
    /\ srvModel' = DefaultModel
    /\ cmdQ' = <<>>
    /\ respQ' = <<>>
    /\ pc' = "closed"
    /\ model' = DefaultModel
    /\ last_seq_no' = 0
    /\ last_processed_seq_no' = None
    /\ min_seq_no' = None
    /\ max_seq_no' = None
    /\ lastOp' = Ret("crash", FALSE, 0, "")
    /\ undoRun' = 0
    /\ expectModel' = None
    /\ UNCHANGED <<dbExists, lock, nextCmd, otherVars>>
    /\ callCount' = 0
    /\ before' = <<>>
    /\ UNCHANGED <<dest, undo_limit, failedAt>>
    /\ UNCHANGED memVars

\* The lock file a killed process left behind is removed by hand.
RemoveStaleLock ==
    /\ lock /\ srvState = "NoThread" /\ pc = "closed" /\ ~otherOpen
    /\ lock' = FALSE
    /\ UNCHANGED <<dbExists, db, srvVars, cmdQ, respQ, pc, model, clientVars,
                   nextCmd, lastOp, undoRun, expectModel, otherVars>>
    /\ UNCHANGED <<callCount, dest, undo_limit, before, failedAt>>
    /\ UNCHANGED memVars

\* One store object on the directory, with crashes.
CrashNext ==
    \/ Open \/ ServerOpen \/ ClientRecvOpen
    \/ AddCmd \/ Mutate \/ ServerAddCmd
    \/ Undo \/ ServerUndo \/ ClientRecvUndo
    \/ Redo \/ ServerRedo \/ ClientRecvRedo
    \/ Saved \/ WaitUntilSaved \/ WaitPoll
    \/ Drop \/ ServerClose \/ ClientRecvClose
    \/ Crash \/ RemoveStaleLock

CrashSpec == Init /\ [][CrashNext]_vars

\* =================================================================== claims
\* What is on disk, as the claims speak of it.
Redoable == CmdIds(db) # {} /\ last_seq_no < Max(CmdIds(db))

Undoable == CmdIds(db) # {} /\ last_seq_no >= Min(CmdIds(db))

AddCmdPending == \E i \in 1..Len(cmdQ) : cmdQ[i].type = "AddCmd"

Quiescent == pc = "idle" /\ srvState = "Loaded" /\ cmdQ = <<>> /\ respQ = <<>>

\* C1: Durability round-trip.  After a session that ended without an error
\* and was dropped, reopening the directory succeeds (the worker that finds
\* the directory unlocked ends up Loaded) and the facade's model after the
\* open equals the facade's model just before the drop.
C1_ReopenedModel ==
    /\ (pc = "idle" /\ lastOp.op = "open" /\ expectModel # None)
          => model \in expectModel
    /\ (pc = "closed" /\ lastOp.op = "drop" /\ lastOp.ok /\ ~otherOpen)
          => ~lock

C1_ReopenSucceeds ==
    (ServerOpen /\ ~lock /\ expectModel # None) => srvState' = "Loaded"

C1_DurabilityRoundTrip == []C1_ReopenedModel /\ [][C1_ReopenSucceeds]_vars

\* C1 witness: a store reopened after an error-free session whose history
\* was trimmed, restored from a snapshot plus replay.
C1_Witness ==
    /\ pc = "idle" /\ lastOp.op = "open" /\ expectModel # None
    /\ SnapIds(db) # {} /\ last_seq_no \notin SnapIds(db)
    /\ Len(model) > UndoLimit

\* C2: whenever saved() returns true, no AddCmd the caller submitted is
\* still waiting in the request channel.
C2_SavedMeansProcessed ==
    (lastOp.op = "saved" /\ lastOp.ok) => ~AddCmdPending

\* C3: after k >= 1 undo() calls followed by one add_cmd, can_redo() is
\* false as soon as add_cmd has returned, and once the worker has processed
\* the AddCmd no command with an id greater than cur is on disk.
C3_TruncationOnBranch ==
    (pc = "idle" /\ lastOp.op = "add_cmd" /\ lastOp.k >= 1)
        => /\ ~can_redo
           /\ cmdQ = <<>> => \A id \in CmdIds(db) : id <= srvCur

\* C4: can_undo()/can_redo() never under-report.  Between calls the only
\* requests in flight are AddCmds, and a processed AddCmd leaves cur at the
\* greatest id; so a command can be redone once everything is processed iff
\* nothing is in flight and one is on disk beyond cur, and a command can be
\* undone then iff an AddCmd is in flight or one is on disk at or below cur.
C4_NeverUnderReport ==
    (pc = "idle" /\ srvState = "Loaded")
        => /\ (cmdQ = <<>> /\ Redoable) => can_redo
           /\ (AddCmdPending \/ (cmdQ = <<>> /\ Undoable)) => can_undo

\* C5: in a state where saved() has just returned true, can_undo() holds iff
\* cur >= min(command_id) on disk and can_redo() iff cur < max(command_id).
C5_AccurateAfterSaved ==
    (pc = "idle" /\ lastOp.op = "saved" /\ lastOp.ok)
        => /\ can_undo <=> Undoable
           /\ can_redo <=> Redoable

\* C6: wait_until_saved() eventually returns when the worker is scheduled
\* fairly and no operation fails.
C6_WaitUntilSavedReturns == (pc = "wait_saved") ~> (pc # "wait_saved")

\* C7: replica consistency.  Whenever both channels are empty between two
\* facade calls, the worker's model replica equals the facade's.
C7_ReplicaConsistency == Quiescent => srvModel = model

\* C7 witness: both channels empty after an undo that followed commands.
C7_Witness ==
    /\ Quiescent /\ lastOp.op = "undo" /\ lastOp.ok
    /\ model # DefaultModel /\ nextCmd > 3

\* C8: snapshot policy safety.  After each processed request at most one
\* snapshot has snapshot_id >= min(command_id) - 1, and the restore
\* algorithm run on the tables yields the worker's cur and model.
C8_SnapshotPolicySafety ==
    srvState = "Loaded"
        => /\ Cardinality({sid \in SnapIds(db) :
                 CmdIds(db) # {} => sid >= Min(CmdIds(db)) - 1}) <= 1
           /\ restore_model(db).ok
           /\ restore_model(db).cur = srvCur
           /\ restore_model(db).model = srvModel

\* C8 witness: the history was trimmed, a snapshot exists and cur is below
\* it, so restore has to replay backwards from the snapshot.
C8_Witness ==
    /\ srvState = "Loaded" /\ SnapIds(db) # {} /\ CmdIds(db) # {}
    /\ Min(CmdIds(db)) > 1 /\ srvCur > 0 /\ srvCur < Max(SnapIds(db))

\* C9: exclusive access.  Never two stores open on the directory; an open
\* that finds the lock file fails with CannotLock, leaves the lock file and
\* the tables alone and does not touch the incumbent store.
C9_OneStore == ~(otherOpen /\ srvState = "Loaded")

C9_LockedOpenFails ==
    /\ (OtherOpen /\ lock)
          => /\ otherRet' = "CannotLock" /\ ~otherOpen'
             /\ UNCHANGED <<diskVars, srvVars, cmdQ, respQ, pc, model,
                            clientVars>>
    /\ (ServerOpen /\ lock)
          => /\ respQ' = Append(respQ, [type |-> "OpenErr", err |-> "CannotLock"])
             /\ srvState' = "Idle"
             /\ UNCHANGED <<diskVars, otherVars>>

C9_ExclusiveAccess == []C9_OneStore /\ [][C9_LockedOpenFails]_vars

\* C9 witness: the incumbent completes an undo after a second open of the
\* directory was refused.
C9_Witness ==
    /\ otherRet = "CannotLock" /\ srvState = "Loaded" /\ pc = "idle"
    /\ lastOp.op = "undo" /\ lastOp.ok

\* C10: the lock file is present iff a store is open on the directory.
C10_LockIffOpen == lock <=> (srvState = "Loaded" \/ otherOpen)

\* C11: after an open() that failed in restore (a command or snapshot that
\* cannot be decoded, or a command-id gap) the store is closed and the lock
\* file taken by that open is gone.
C11_FailedOpenReleasesLock ==
    (pc = "closed" /\ lastOp.op = "open" /\ ~lastOp.ok
        /\ lastOp.err \in {"CannotDeserialize", "CannotRestoreModel"}
        /\ ~otherOpen)
        => ~lock

\* C12: the write path of one AddCmd is atomic on disk.  When the worker
\* stops inside the write path, the tables are those before or those after
\* the AddCmd, and restore run on them yields the model of the last fully
\* committed command.
C12_CrashLeavesBeforeOrAfter ==
    Crash =>
        LET after == add_cmd(db, srvModel, Head(cmdQ).seq_no,
                             Head(cmdQ).ser_cmd, undo_limit)
        IN \/ db' = db /\ restore_model(db').ok
                       /\ restore_model(db').model = srvModel
           \/ db' = after.db /\ restore_model(db').ok
                             /\ restore_model(db').model = after.model

C12_AtomicWritePath == [][C12_CrashLeavesBeforeOrAfter]_vars

\* The calls on the in-memory store, as the claims speak of them.
Rep(x, n) == [i \in 1..n |-> x]

\* The model obtained by applying the first n commands to the default model.
RECURSIVE Applied(_)
Applied(n) == IF n = 0 THEN DefaultModel ELSE CmdRedo(n, Applied(n - 1))

\* C13 as stated: for any sequence s of commands added to a fresh in-memory
\* store, |s| undos yield the default model and |s| redos then yield the
\* model of s applied to the default model.
C13_RoundTripAnyLength ==
    \A n \in 0..MaxMemOps :
        /\ memHist = Rep("add_cmd", n) \o Rep("undo", n)
              => memModel = DefaultModel
        /\ memHist = Rep("add_cmd", n) \o Rep("undo", n) \o Rep("redo", n)
              => memModel = Applied(n)

\* C13 amended: the round trip holds for every sequence s that fits the
\* capacity of the store, |s| <= L.
C13_RoundTripWithinCapacity ==
    \A n \in 0..capacity :
        /\ memHist = Rep("add_cmd", n) \o Rep("undo", n)
              => memModel = DefaultModel /\ location = 0
        /\ memHist = Rep("add_cmd", n) \o Rep("undo", n) \o Rep("redo", n)
              => memModel = Applied(n) /\ location = n

\* C13 witness: two commands added, undone and redone on a store that holds
\* both.
C13_Witness ==
    /\ capacity >= 2
    /\ memHist = Rep("add_cmd", 2) \o Rep("undo", 2) \o Rep("redo", 2)
    /\ memModel = Applied(2)

\* C14: bounded history (in-memory).  After n > L add_cmd calls on a store
\* created with new(L), can_undo() is true for exactly L consecutive undo()
\* calls from the tip: after j <= L undos the model is that of the first
\* n - j commands, and any further undo changes nothing, the model staying
\* that of the first n - L commands.
C14_BoundedHistory ==
    \A n \in 1..MaxMemOps : \A j \in 0..MaxMemOps :
        (n > capacity /\ memHist = Rep("add_cmd", n) \o Rep("undo", j))
            => /\ mem_can_undo(location) <=> j < capacity
               /\ j <= capacity => /\ memModel = Applied(n - j)
                                   /\ location = capacity - j
               /\ j > capacity => /\ memModel = Applied(n - capacity)
                                  /\ location = 0
               /\ Len(store) = capacity

\* C14 witness: capacity 2, three commands added, three undos: the third
\* undo was ignored and the model is that of the first command.
C14_Witness ==
    /\ capacity = 2
    /\ memHist = Rep("add_cmd", 3) \o Rep("undo", 3)
    /\ memModel = Applied(1)

\* C15: bounded history (durable).  The store is idle after an undo() call
\* (effective or ignored) of a run of undos that started at the tip, n > L
\* commands were added (n is the greatest id, the history is full and was
\* trimmed) and no add_cmd ever followed an undo, so the k-th command has
\* id k.  Then at most L undos of the run took effect, can_undo() holds iff
\* fewer than L did, an ignored undo comes after exactly L effective ones,
\* and the model is that of the first n - j commands after j effective
\* undos.  The run may lie in the session of the adds or after a reopen.
\* Whenever the worker has processed all requests, the client's cached
\* min_seq_no is min(command_id) on disk.
C15_UndoRunFromTip ==
    /\ pc = "idle" /\ lastOp.op = "undo" /\ CmdIds(db) # {}
    /\ last_seq_no + undoRun = Max(CmdIds(db))
    /\ Max(CmdIds(db)) = nextCmd - 1
    /\ Max(CmdIds(db)) > UndoLimit

C15_BoundedHistoryDurable ==
    /\ C15_UndoRunFromTip
          => /\ undoRun <= UndoLimit
             /\ can_undo <=> undoRun < UndoLimit
             /\ ~lastOp.ok => undoRun = UndoLimit
             /\ model = Applied(Max(CmdIds(db)) - undoRun)
    /\ Quiescent
          => min_seq_no = IF CmdIds(db) = {} THEN None
                          ELSE Some(Min(CmdIds(db)))

\* C15 witness: after a reopen at the tip of n > L commands, L undos took
\* effect and one more was ignored.
C15_Witness ==
    /\ C15_UndoRunFromTip /\ ~lastOp.ok /\ undoRun = UndoLimit
    /\ expectModel = Some(Applied(nextCmd - 1))
    /\ model = Applied(nextCmd - 1 - UndoLimit)
    /\ Quiescent

\* C16: add_cmd on the in-memory store, also after undos: the entries at
\* positions >= location are discarded, the oldest entry is dropped only if
\* the buffer is then full, the command is appended, location is the buffer
\* length, can_redo() is false and the model holds the command's effect
\* exactly once; a discarded command is never in the buffer or in the model
\* again, whatever undo/redo follow.
C16_AddCmdStep ==
    MemAddCmd =>
        LET kept == SubSeq(store, 1, location)
            base == IF Len(kept) = capacity THEN Tail(kept) ELSE kept
        IN /\ store' = Append(base, MemNextCmd)
           /\ location' = Len(store')
           /\ ~mem_can_redo(store', location')
           /\ Cardinality({j \in DOMAIN memModel' :
                              memModel'[j] = MemNextCmd}) = 1
           /\ SubSeq(memModel', 1, Len(memModel)) = memModel

C16_TailUnreachable ==
    \A d \in discarded :
        /\ \A j \in DOMAIN store : store[j] # d
        /\ \A j \in DOMAIN memModel : memModel[j] # d

C16_AddCmdTruncates == [][C16_AddCmdStep]_vars /\ []C16_TailUnreachable

\* C16 witness: an add_cmd followed an undo and discarded a command, and an
\* undo and a redo were made afterwards.
C16_Witness ==
    /\ discarded # {}
    /\ \E i \in 1..Len(memHist) - 3 :
          /\ memHist[i] = "undo" /\ memHist[i + 1] = "add_cmd"
          /\ memHist[i + 2] = "undo" /\ memHist[i + 3] = "redo"
    /\ ~mem_can_redo(store, location)

\* C17: after every processed request the command ids on disk form one
\* contiguous range [min, max] of at most L ids and the persisted cur
\* satisfies min - 1 <= cur <= max; cur is 0 when no command exists.
C17_RetainedRange ==
    LET ids == CmdIds(db) IN
    /\ ids # {} => /\ ids = Min(ids)..Max(ids)
                   /\ Cardinality(ids) <= UndoLimit
                   /\ \A cur \in db.seq : Min(ids) - 1 <= cur /\ cur <= Max(ids)
                   /\ db.seq # {}
    /\ ids = {} => \A cur \in db.seq : cur = 0

\* C17 witness: the history was trimmed to L commands and all of them are
\* undone, cur = min - 1.
C17_Witness ==
    /\ srvState = "Loaded" /\ CmdIds(db) # {}
    /\ Cardinality(CmdIds(db)) = UndoLimit
    /\ Min(CmdIds(db)) > 1
    /\ db.seq = {Min(CmdIds(db)) - 1}

\* C18 as stated: the ids assigned by successive add_cmd calls are strictly
\* increasing over the lifetime of the store and an id is never assigned to
\* a different command, also when add_cmd follows undo calls: the id the
\* worker assigns is greater than every id it assigned to a command that is
\* still in the table.
C18_AssignsFreshId ==
    (ServerAddCmd /\ srvState = "Loaded")
        => \A id \in CmdIds(db) : id < Head(cmdQ).seq_no + 1

C18_IdsNeverReused == [][C18_AssignsFreshId]_vars

\* C18 amended: the id assigned by an add_cmd is cur + 1.  Successive
\* add_cmd calls without an undo between them get consecutive, strictly
\* increasing ids; an add_cmd after undo calls re-uses the id of the first
\* undone command, which the same write deletes with the rest of the redo
\* tail.  The command of an id at or below cur is never replaced, and the
\* new id is the greatest in the table.
C18_AssignsNextPosition ==
    (ServerAddCmd /\ srvState = "Loaded")
        => LET id == Head(cmdQ).seq_no + 1 IN
           /\ id = srvCur + 1
           /\ srvCur' = id
           /\ id \in CmdIds(db') /\ db'.command[id] = Head(cmdQ).ser_cmd
           /\ Max(CmdIds(db')) = id
           /\ \A j \in CmdIds(db') : j < id => /\ j \in CmdIds(db)
                                               /\ db'.command[j] = db.command[j]
           /\ \A j \in CmdIds(db) : j >= id => j > srvCur

C18_IdsFollowPosition == [][C18_AssignsNextPosition]_vars

\* C18 witness: the worker has processed an add_cmd that followed an undo;
\* the command submitted last is stored under an id smaller than the number
\* of commands submitted, an id another command had before.
C18_Witness ==
    /\ pc = "idle" /\ lastOp.op = "add_cmd" /\ lastOp.k >= 1
    /\ srvState = "Loaded" /\ cmdQ = <<>>
    /\ srvCur \in CmdIds(db) /\ db.command[srvCur] = Serialize(nextCmd - 1)
    /\ srvCur < nextCmd - 1

\* The AddCmd requests waiting in the request channel, in order.
PendingAdds == SelectSeq(cmdQ, LAMBDA msg : msg.type = "AddCmd")

\* No undo is in effect and no add_cmd ever followed one: the client is at
\* position k after k submitted commands.
C19_NoUndo == last_seq_no = nextCmd - 1 /\ pc \in {"idle", "wait_saved"}

\* C19: submission order is preserved.  With no undo, the k-th submitted
\* command is stored under command_id k with its own bytes, also when
\* several add_cmd calls are queued before the worker runs: a queued AddCmd
\* carries its own bytes and the position before it, and the queued
\* commands follow the stored ones.  At any time the retained commands
\* ordered by command_id are in submission order.
C19_SubmissionOrder ==
    /\ \A i, j \in CmdIds(db) :
          i < j => Deserialize(db.command[i]) < Deserialize(db.command[j])
    /\ C19_NoUndo
          => /\ \A id \in CmdIds(db) : db.command[id] = Serialize(id)
             /\ \A i \in 1..Len(PendingAdds) :
                   /\ PendingAdds[i].ser_cmd = Serialize(PendingAdds[i].seq_no + 1)
                   /\ PendingAdds[i].seq_no + 1 = nextCmd - 1 - Len(PendingAdds) + i
             /\ srvState = "Loaded" => srvCur = nextCmd - 1 - Len(PendingAdds)

\* C19 witness: two commands are stored, the older ones trimmed, and two
\* more add_cmd calls are queued while no acknowledgement was consumed.
C19_Witness ==
    /\ C19_NoUndo /\ Len(PendingAdds) >= 2
    /\ Cardinality(CmdIds(db)) >= 2 /\ Min(CmdIds(db)) > 1
    /\ Len(respQ) >= 2 /\ last_processed_seq_no = None

\* C20: undo() and redo() see all earlier submissions.  While undo() issued
\* right after add_cmd(c) waits for its reply, every response it receives is
\* an AddCmdOk, consumed without error, or the UndoOk, which carries the
\* client's last_seq_no and the bytes of c; undo() then returns and the
\* facade's model is the one before add_cmd(c).
C20_UndoAfterAddStep ==
    (ClientRecvUndo /\ lastOp.op = "add_cmd")
        => LET msg == Head(respQ) IN
           /\ msg.type \in {"AddCmdOk", "UndoOk"}
           /\ msg.type = "AddCmdOk" => pc' = "wait_undo" /\ model' = model
           /\ msg.type = "UndoOk"
                 => /\ msg.seq_no = last_seq_no
                    /\ msg.serialized_command = Serialize(nextCmd - 1)
                    /\ pc' = "idle" /\ lastOp'.op = "undo" /\ lastOp'.ok
                    /\ last_seq_no' = last_seq_no - 1
                    /\ CmdRedo(nextCmd - 1, model') = model

C20_UndoSeesPriorAdds == [][C20_UndoAfterAddStep]_vars

\* C20 witness: undo() was called right after add_cmd, the worker has
\* answered both, and the AddCmdOk lies before the UndoOk in the channel.
C20_Witness ==
    /\ pc = "wait_undo" /\ lastOp.op = "add_cmd"
    /\ Len(respQ) >= 2
    /\ respQ[Len(respQ) - 1].type = "AddCmdOk"
    /\ respQ[Len(respQ) - 1].seq_no = last_seq_no
    /\ respQ[Len(respQ)].type = "UndoOk"

\* C21: variant equivalence.  After each add_cmd/undo/redo call made on a
\* durable store opened empty with undo limit L and on an in-memory store
\* of capacity L, both expose the same model(), can_undo() and can_redo().
C21_VariantEquivalence ==
    (pc = "idle" /\ memHist # <<>>)
        => /\ model = memModel
           /\ can_undo <=> mem_can_undo(location)
           /\ can_redo <=> mem_can_redo(store, location)

\* C22: can_undo() and can_redo() survive a reopen.  The client's fields
\* keep their values from the drop until the next open succeeds; when a
\* store that was dropped without an error is opened again, can_undo() and
\* can_redo() of the reopened store are those just before the drop.
C22_ReopenKeepsFlags ==
    (ClientRecvOpen /\ Head(respQ).type = "OpenOk" /\ expectModel # None)
        => /\ can_undo' <=> can_undo
           /\ can_redo' <=> can_redo

C22_FlagsSurviveReopen == [][C22_ReopenKeepsFlags]_vars

\* C23: precondition violations are silent no-ops in both variants.  An
\* undo() made when can_undo() is false, and a redo() made when can_redo()
\* is false, leaves the model, the history, the position and the disk as
\* they are, raises no error and sends no request; and an undo() or redo()
\* made when can_undo() / can_redo() is true completes without error.
C23_NoOpStep ==
    /\ (UndoCall /\ ~can_undo) \/ (RedoCall /\ ~can_redo)
          => UNCHANGED <<diskVars, srvVars, cmdQ, respQ, pc, model, clientVars>>
    /\ (MemUndoCall /\ ~mem_can_undo(location))
          \/ (MemRedoCall /\ ~mem_can_redo(store, location))
          => UNCHANGED <<memModel, store, location>>

C23_NoError == pc = "panicked" => lastOp.op \notin {"undo", "redo"}

C23_SilentNoOps == [][C23_NoOpStep]_vars /\ []C23_NoError

\* C24: mutate(f) where f returns an error.  The caller's error is returned,
\* no command is committed and no request is sent: the history, the
\* position, can_undo(), can_redo(), last_seq_no and everything else the
\* store consists of are as before the call, in both variants, so later
\* operations behave as if the call had not been made.
C24_FailedMutateStep ==
    PairMutateErr
        => /\ lastOp'.op = "mutate" /\ ~lastOp'.ok /\ lastOp'.err = "CallerError"
           /\ UNCHANGED <<diskVars, srvVars, cmdQ, respQ, pc, model,
                          clientVars, nextCmd>>
           /\ (can_undo' <=> can_undo) /\ (can_redo' <=> can_redo)
           /\ UNCHANGED <<memModel, store, location, capacity>>

C24_FailedMutateIsNoOp == [][C24_FailedMutateStep]_vars

\* C24 witness: a mutate failed on stores that hold a command and an undone
\* command.
C24_Witness ==
    /\ lastOp.op = "mutate" /\ ~lastOp.ok /\ pc = "idle"
    /\ memHist # <<>> /\ memHist[Len(memHist)] = "mutate_err"
    /\ mem_can_redo(store, location) /\ mem_can_undo(location)
    /\ can_undo /\ model # DefaultModel

\* The number of calls of one kind made so far.
CountOf(hist, call) == Cardinality({i \in 1..Len(hist) : hist[i] = call})

\* C25: irreversible_mutate(f) runs f on the model and returns its value.
\* The step leaves the tables, the worker, both channels, the client's
\* sequence numbers (hence can_undo(), can_redo() and what saved() compares),
\* the command-built part of the model, and the in-memory store's history
\* and position as they were.
C25_IrreversibleStep ==
    PairIrreversibleMutate
        => /\ callCount' = callCount + 1 /\ memCallCount' = memCallCount + 1
           /\ lastOp'.ok /\ lastOp'.k = callCount'
           /\ UNCHANGED <<diskVars, srvVars, cmdQ, respQ, pc, model, clientVars>>
           /\ (can_undo' <=> can_undo) /\ (can_redo' <=> can_redo)
           /\ saved(last_processed_seq_no', last_seq_no')
                  <=> saved(last_processed_seq_no, last_seq_no)
           /\ UNCHANGED <<memModel, store, location, capacity, discarded>>

\* C25: whatever undo and redo calls follow, every change made by f is still
\* in the model exactly once.
C25_ChangeStays ==
    /\ callCount = CountOf(memHist, "irreversible_mutate")
    /\ memCallCount = CountOf(memHist, "irreversible_mutate")

C25_IrreversibleOutsideHistory == [][C25_IrreversibleStep]_vars /\ []C25_ChangeStays

\* C25 witness: after an irreversible_mutate between two adds, an undo
\* took back a command and a redo re-applied it.
C25_Witness ==
    /\ pc = "idle" /\ respQ = <<>> /\ cmdQ = <<>>
    /\ callCount = 1 /\ memCallCount = 1
    /\ \E i \in 1..Len(memHist) :
          /\ memHist[i] = "irreversible_mutate"
          /\ \E j \in (i + 1)..Len(memHist) :
                /\ memHist[j] = "undo"
                /\ \E k \in (j + 1)..Len(memHist) : memHist[k] = "redo"
    /\ lastOp.op = "redo" /\ lastOp.ok
    /\ model # DefaultModel /\ model = memModel

\* What C26 promises of a copy: a store opened on the destination has the
\* source's model, position and commands, the destination holds no lock,
\* and the source store is as it was.
CopyMatchesSource ==
    LET o == OpenDir(dest'.exists, dest'.db, dest'.lock) IN
    /\ o.ok
    /\ o.model = model
    /\ o.cur = last_seq_no
    /\ o.db.command = db.command
    /\ ~dest'.lock
    /\ UNCHANGED <<diskVars, srvVars, cmdQ, respQ, pc, model, clientVars>>

\* C26: save_as called right after saved() returned true gives a copy that
\* opens to the source's model, position and retained commands, without a
\* lock, and leaves the source usable.
C26_SaveAsStep ==
    (SaveAs /\ dbExists /\ lastOp.op = "saved" /\ lastOp.ok)
        => CopyMatchesSource

C26_SaveAsCopiesSavedState == [][C26_SaveAsStep]_vars

\* C26 restricted to the calls made while the request channel is empty.
C26_QuiescentStep ==
    (SaveAs /\ dbExists /\ lastOp.op = "saved" /\ lastOp.ok /\ cmdQ = <<>>)
        => CopyMatchesSource

C26_SaveAsCopiesQuiescentState == [][C26_QuiescentStep]_vars

\* The payloads of the commands in the command table.
Persisted == {Deserialize(db.command[id]) : id \in CmdIds(db)}

\* C27: the error of a failed AddCmd reaches the caller at the next saved(),
\* undo() or redo().
C27_SurfacedStep ==
    /\ (Saved /\ \E i \in 1..Len(respQ) : respQ[i].type = "AddCmdErr")
           => ~lastOp'.ok /\ lastOp'.err = "Sqlite"
    /\ (ClientRecvUndoRedo("Undo", -1) /\ Head(respQ).type = "AddCmdErr")
           => ~lastOp'.ok /\ lastOp'.op = "undo" /\ lastOp'.err = "Sqlite"
    /\ (ClientRecvUndoRedo("Redo", 1) /\ Head(respQ).type = "AddCmdErr")
           => ~lastOp'.ok /\ lastOp'.op = "redo" /\ lastOp'.err = "Sqlite"

C27_ErrorSurfaced == [][C27_SurfacedStep]_vars

\* C27: from the failure on no command submitted later is in the command
\* table, and saved() does not return true.
C27_NoLaterWrite ==
    \A n \in failedAt : \A c \in Persisted : c < n

C27_NoLaterSaved ==
    (Saved /\ failedAt # None) => ~lastOp'.ok

C27_NeverSavedAgain == [][C27_NoLaterSaved]_vars

\* C27: a failed AddCmd is fatal: surfaced at the next call that reads the
\* responses, and no write is accepted afterwards.
C27_FailedAddIsFatal ==
    /\ [][C27_SurfacedStep]_vars
    /\ []C27_NoLaterWrite
    /\ [][C27_NoLaterSaved]_vars

\* C28: the AddCmd that would assign SmallMaxCommandId is refused: no row is
\* inserted, the persisted and the worker's position stay, and the only
\* response is the needs-compaction error.
C28_ExhaustedStep ==
    (SmallServerAddCmd /\ srvState = "Loaded"
        /\ Head(cmdQ).seq_no + 1 = SmallMaxCommandId)
        => /\ db'.command = db.command
           /\ db'.seq = db.seq /\ srvCur' = srvCur
           /\ respQ' = Append(respQ, [type |-> "AddCmdErr",
                                      err |-> "NeedCompaction"])

\* C28: no command submitted after the refusal is in the command table.
C28_ReadOnlyAfter ==
    \A n \in failedAt : \A c \in Persisted : c < n

\* C28: at MAX_COMMAND_ID the worker refuses the write with a
\* needs-compaction error and nothing is written then or later.
C28_ExhaustionRefusesWrite ==
    [][C28_ExhaustedStep]_vars /\ []C28_ReadOnlyAfter

\* C29: with both channels empty and the caller between calls, the
\* cmd_seq_no row, the worker's cur_cmd_seq_no and the client's last_seq_no
\* are equal.
C29_PositionsAgree ==
    Quiescent => db.seq = {srvCur} /\ srvCur = last_seq_no

\* C29: the sequence number of every UndoOk / RedoOk the client receives
\* is its last_seq_no.
C29_OkMatchesStep ==
    /\ (ClientRecvUndo /\ Head(respQ).type = "UndoOk")
           => Head(respQ).seq_no = last_seq_no
    /\ (ClientRecvRedo /\ Head(respQ).type = "RedoOk")
           => Head(respQ).seq_no = last_seq_no

\* C29: no call ends with CmdSequenceError.
C29_NoCmdSequenceError == lastOp.err # "CmdSequenceError"

\* C29: position consistency of disk, worker and client.
C29_PositionConsistency ==
    /\ []C29_PositionsAgree
    /\ [][C29_OkMatchesStep]_vars
    /\ []C29_NoCmdSequenceError

\* C29 witness: the channels are empty after an undo that followed adds, on
\* a store that was reopened.
C29_Witness ==
    /\ Quiescent
    /\ lastOp.op = "undo" /\ lastOp.ok
    /\ last_seq_no >= 2
    /\ expectModel # None
    /\ Redoable

\* C30: Close is sent behind every request sent before.
C30_CloseLastStep ==
    Drop => cmdQ' = Append(cmdQ, [type |-> "Close"])

\* C30: when the worker removes the lock file, no earlier request is left,
\* the cmd_seq_no row is the client's last_seq_no, the tables restore to the
\* model the facade had when it was dropped, and the worker exits.
C30_UnlockStep ==
    (ServerClose /\ srvState = "Loaded" /\ lock)
        => /\ pc = "wait_close"
           /\ \A i \in 1..Len(cmdQ) : cmdQ[i].type = "Close"
           /\ db.seq = {last_seq_no}
           /\ restore_model(db).ok
           /\ restore_model(db).cur = last_seq_no
           /\ restore_model(db).model = model
           /\ srvState' = "NoThread"
           /\ ~lock'

\* C30: a drop that has begun ends.
C30_DropCompletes == (pc = "wait_close") ~> (pc = "closed")

\* C30: the close protocol.
C30_CloseProtocol ==
    /\ [][C30_CloseLastStep]_vars
    /\ [][C30_UnlockStep]_vars
    /\ C30_DropCompletes

\* C30 restricted to the drops of a store none of whose calls has panicked.
C30_UnlockStepNoPanic ==
    (expectModel # None) => C30_UnlockStep

C30_CloseProtocolNoPanic ==
    /\ [][C30_CloseLastStep]_vars
    /\ [][C30_UnlockStepNoPanic]_vars
    /\ C30_DropCompletes

\* The value of the Sum model built from the applied Add commands.
RECURSIVE SumOf(_)
SumOf(m) == IF m = <<>> THEN 0 ELSE Head(m) + SumOf(Tail(m))

\* The store has been dropped and opened again.
Reopened == pc = "idle" /\ lastOp.op = "open" /\ expectModel # None

\* What C31 says apart from the number of commands: the model is 17 after
\* Add(7) and after the reopen, which succeeds, and there is at most one
\* snapshot, with an id in [min(command_id) - 1, max(command_id)].
C31_ModelAndSnapshot ==
    /\ (pc = "idle" /\ nextCmd = BranchAdds + 1) => SumOf(model) = 17
    /\ lastOp.op = "open" => lastOp.ok
    /\ Reopened
          => /\ Cardinality(SnapIds(db)) <= 1
             /\ \A sn \in SnapIds(db) :
                   Min(CmdIds(db)) - 1 <= sn /\ sn <= Max(CmdIds(db))

\* C31 as stated: after the reopen the command table holds exactly five
\* commands.
C31_FiveCommands ==
    /\ C31_ModelAndSnapshot
    /\ Reopened => Cardinality(CmdIds(db)) = 5

\* C31 amended: after the reopen the command table holds exactly four
\* commands, the ids 2 .. 5 (command 1 was evicted by Add(6), commands 5
\* and 6 were truncated by Add(7)).
C31_FourCommands ==
    /\ C31_ModelAndSnapshot
    /\ Reopened => CmdIds(db) = 2..5

\* C31 witness: the scenario has run to its end.
C31_Witness ==
    /\ Reopened /\ nextCmd = BranchAdds + 1
    /\ respQ = <<>> /\ cmdQ = <<>>
    /\ SumOf(model) = 17 /\ SnapIds(db) = {5}

\* C32: in an in-memory store created with new(L), L >= 1, after any calls
\* of add_cmd, mutate, irreversible_mutate, undo and redo:
\* 0 <= location <= |store| <= L, can_undo() iff location > 0 and
\* can_redo() iff location < |store|.
C32_MemStructure ==
    /\ capacity >= 1
    /\ 0 <= location /\ location <= Len(store) /\ Len(store) <= capacity
    /\ mem_can_undo(location) <=> location > 0
    /\ mem_can_redo(store, location) <=> location < Len(store)

\* C32 witness: a full buffer with every command undone, after calls of
\* all five kinds.
C32_Witness ==
    /\ location = 0 /\ Len(store) = capacity /\ capacity > 1
    /\ \A c \in {"add_cmd", "mutate", "irreversible_mutate", "undo", "redo"} :
          \E i \in 1..Len(memHist) : memHist[i] = c

\* C33, in-memory store: where can_undo() holds, undo() then redo() gives
\* the same model and position; where can_redo() holds, redo() then undo()
\* does.  (The buffer is not touched by either.)
C33_MemRoundTrip ==
    /\ mem_can_undo(location)
          => LET u == mem_undo(store, location, memModel)
                 r == mem_redo(store, u.location, u.model)
             IN /\ mem_can_redo(store, u.location)
                /\ r.location = location /\ r.model = memModel
    /\ mem_can_redo(store, location)
          => LET r == mem_redo(store, location, memModel)
                 u == mem_undo(store, r.location, r.model)
             IN /\ mem_can_undo(r.location)
                /\ u.location = location /\ u.model = memModel

\* C33: undo and redo leave the buffer, the command rows and the snapshots
\* as they are.
C33_KeepsCommandsStep ==
    /\ (PairUndo \/ PairRedo) => (store' = store /\ db' = db)
    /\ (ServerUndo \/ ServerRedo)
          => (db'.command = db.command /\ db'.snapshot = db.snapshot)

\* C33, durable store: a redo() called right after an effective undo() acts
\* and ends with the model and the position the store had before the
\* undo(); likewise an undo() called right after an effective redo().
C33_DurableRoundTripStep ==
    /\ (RedoCall /\ lastOp.op = "undo" /\ lastOp.ok) => can_redo
    /\ (UndoCall /\ lastOp.op = "redo" /\ lastOp.ok) => can_undo
    /\ (/\ \/ (ClientRecvRedo /\ lastOp.op = "undo")
            \/ (ClientRecvUndo /\ lastOp.op = "redo")
         /\ lastOp.ok
         /\ Head(respQ).type # "AddCmdOk")
          => /\ pc' = "idle"
             /\ model' = before[2].model
             /\ last_seq_no' = before[2].pos

\* C33: undo and redo are mutually inverse and destroy no command.
C33_UndoRedoInverse ==
    /\ []C33_MemRoundTrip
    /\ [][C33_KeepsCommandsStep]_vars
    /\ [][C33_DurableRoundTripStep]_vars

\* C33 for the in-memory store and the rows alone.
C33_MemAndRows == []C33_MemRoundTrip /\ [][C33_KeepsCommandsStep]_vars

\* C34: mutate with a closure that returns a command c leaves the model as
\* the closure left it (redo of c is not run on it again) and commits c as
\* add_cmd does: one AddCmd message carrying c and the old position, the
\* position moved to the tip; in the in-memory store c is posted by post_cmd
\* and is the newest entry.
C34_MutateStep ==
    PairMutate =>
        /\ model' = Append(model, nextCmd)
        /\ Len(model') = Len(model) + 1
        /\ cmdQ' = Append(cmdQ, [type |-> "AddCmd", seq_no |-> last_seq_no,
                                 ser_cmd |-> Serialize(nextCmd)])
        /\ last_seq_no' = last_seq_no + 1
        /\ memModel' = Append(memModel, MemNextCmd)
        /\ Len(memModel') = Len(memModel) + 1
        /\ LET r == post_cmd(store, location, capacity, MemNextCmd)
           IN store' = r.store /\ location' = r.location
        /\ location' = Len(store') /\ store'[location'] = MemNextCmd
        /\ Len(store') <= capacity

\* C34: the worker applies redo of the received command once to its replica
\* and runs the write path of add_cmd.
C34_WorkerStep ==
    (ServerAddCmd /\ srvState = "Loaded") =>
        LET msg == Head(cmdQ)
            c == Deserialize(msg.ser_cmd)
            r == add_cmd(db, srvModel, msg.seq_no, msg.ser_cmd, undo_limit)
        IN /\ srvModel' = Append(srvModel, c)
           /\ db' = r.db
           /\ msg.seq_no + 1 \in CmdIds(db')
           /\ \A id \in CmdIds(db') : id <= msg.seq_no + 1
           /\ Cardinality(CmdIds(db')) <= undo_limit
           /\ srvCur' = msg.seq_no + 1

\* C34: once every request is answered the worker's replica is the model the
\* closures left.
C34_ReplicaIsClosureModel == Quiescent => srvModel = model

\* C34: mutate with a closure that returns a command commits the command at
\* the tip as add_cmd does, without running its redo on the facade's model;
\* the worker applies the redo once to its replica and runs the write path.
C34_MutateCommitsWithoutRedo ==
    /\ [][C34_MutateStep]_vars
    /\ [][C34_WorkerStep]_vars
    /\ []C34_ReplicaIsClosureModel

\* A mutate that followed an undo has returned and the worker has stored its
\* command.
C34_Witness ==
    /\ lastOp.op = "mutate" /\ pc = "idle"
    /\ srvState = "Loaded" /\ cmdQ = <<>>
    /\ discarded # {}
    /\ Len(model) >= 2 /\ srvModel = model
    /\ \A id \in CmdIds(db) : id <= last_seq_no

\* C35: an add that truncates nothing writes a snapshot at the new cur iff
\* it evicted a command and there is no snapshot or the latest snapshot id is
\* below cur - L; in every other case the snapshot table stays as it is.
C35_SnapshotRuleStep ==
    (/\ ServerAddCmd /\ srvState = "Loaded"
     /\ CanDeserialize(Head(cmdQ).ser_cmd))
    => LET cur == Head(cmdQ).seq_no + 1
           truncated == {id \in CmdIds(db) : id >= cur}
           evicted == (CmdIds(db) \cup {cur}) \ CmdIds(db')
           last == get_last_snapshot_id(db)
           due == last = None \/ \E l \in last : l < cur - undo_limit
       IN truncated = {} =>
            /\ (evicted # {} /\ due)
                  => /\ cur \in SnapIds(db') /\ cur \notin SnapIds(db)
                     /\ db'.snapshot[cur] = Serialize(srvModel')
            /\ (evicted # {} /\ ~due) => db'.snapshot = db.snapshot
            /\ evicted = {} => db'.snapshot = db.snapshot

\* C35: with L = 3 and adds 1..8 the snapshot ids after the k-th add are:
\* none for k <= 3, {4} for k = 4..7, {8} for k = 8.
C35_SnapshotIds ==
    srvState = "Loaded" =>
        SnapIds(db) = IF srvCur <= 3 THEN {}
                      ELSE IF srvCur <= 7 THEN {4} ELSE {8}

\* C35: the snapshot write rule of an add that truncates nothing, and the
\* snapshot ids it gives for L = 3 and the adds 1..8.
C35_SnapshotWriteRule == [][C35_SnapshotRuleStep]_vars /\ []C35_SnapshotIds

\* The eighth add is stored and has replaced the snapshot at 4.
C35_Witness ==
    /\ srvState = "Loaded" /\ srvCur = SnapAdds /\ cmdQ = <<>>
    /\ SnapIds(db) = {8} /\ CmdIds(db) = 6..8
    /\ db.snapshot[8] = Serialize(srvModel)

\* C36: an add that truncated at least one command leaves exactly one
\* snapshot; its id is the new cur and its content is the worker's model with
\* the new command applied.
C36_BranchSnapshotStep ==
    (/\ ServerAddCmd /\ srvState = "Loaded"
     /\ CanDeserialize(Head(cmdQ).ser_cmd))
    => LET cur == Head(cmdQ).seq_no + 1
           c == Deserialize(Head(cmdQ).ser_cmd)
           truncated == {id \in CmdIds(db) : id >= cur}
       IN truncated # {} =>
            /\ SnapIds(db') = {cur}
            /\ srvCur' = cur
            /\ db'.snapshot[cur] = Serialize(CmdRedo(c, srvModel))
            /\ srvModel' = CmdRedo(c, srvModel)

\* C36: after an add that truncated commands the snapshot table holds exactly
\* the snapshot of the new cur; no snapshot of the abandoned branch is left.
C36_SnapshotOnBranch == [][C36_BranchSnapshotStep]_vars

\* An add that followed an undo is stored; commands had been evicted before,
\* and the only snapshot is the one of the new branch.
C36_Witness ==
    /\ lastOp.op = "add_cmd" /\ lastOp.k >= 1 /\ pc = "idle"
    /\ srvState = "Loaded" /\ cmdQ = <<>>
    /\ Len(srvModel) = undo_limit + 1
    /\ srvModel[Len(srvModel)] = undo_limit + 2
    /\ SnapIds(db) = {srvCur}
    /\ db.snapshot[srvCur] = Serialize(srvModel)

\* The base of the replay: the latest eligible snapshot, or 0.
C37_Base(d) ==
    IF EligibleSnapshots(d) = {} THEN 0 ELSE Max(EligibleSnapshots(d))

\* The command ids between the base and cur.
C37_Range(d) ==
    LET cur == get_cur_seq_no(d)
        b == C37_Base(d)
    IN IF b <= cur THEN (b + 1)..cur ELSE (cur + 1)..b

\* The model at cur: the model at the base with the commands of the range
\* redone in ascending order (base below cur) or undone in descending order.
RECURSIVE C37_Replayed(_, _, _)
C37_Replayed(m, from, to) ==
    IF from = to THEN m
    ELSE IF from < to THEN C37_Replayed(CmdRedo(from + 1, m), from + 1, to)
    ELSE C37_Replayed(CmdUndo(from, m), from - 1, to)

C37_Expected(d) ==
    LET b == C37_Base(d)
        m == IF EligibleSnapshots(d) = {} THEN DefaultModel
             ELSE Deserialize(d.snapshot[b])
    IN C37_Replayed(m, b, get_cur_seq_no(d))

\* C37: the Open arm on a file with cur > 0 answers with the model of
\* exactly the commands between the base and cur, or with a restore error;
\* it answers with the error when an id of that range has no row.
C37_RestoreStep ==
    (/\ ServerOpen /\ srvState = "Idle" /\ dbExists /\ ~lock
     /\ get_cur_seq_no(db) > 0)
    => LET resp == respQ'[Len(respQ')]
       IN /\ resp.type = "OpenOk"
                => /\ C37_Range(db) \subseteq CmdIds(db)
                   /\ Deserialize(resp.serialized_model) = C37_Expected(db)
                   /\ resp.seq_no = get_cur_seq_no(db)
          /\ resp.type # "OpenOk"
                => /\ resp.type = "OpenErr"
                   /\ resp.err \in {"CannotRestoreModel", "CannotDeserialize"}
          /\ ~(C37_Range(db) \subseteq CmdIds(db))
                => resp.type = "OpenErr" /\ resp.err = "CannotRestoreModel"

\* C37: restore returns the model of exactly the commands between the base
\* and cur or fails with a restore error, and fails whenever an id of that
\* range is missing, the ids at the end of the range included.
C37_RestoreValidatesRange == [][C37_RestoreStep]_vars

\* C37 without the rows at the end of the range: a missing id that has a row
\* of the range after it (in replay order) is answered with the error, and a
\* complete range is replayed exactly.
C37_InnerGapStep ==
    (/\ ServerOpen /\ srvState = "Idle" /\ dbExists /\ ~lock
     /\ get_cur_seq_no(db) > 0)
    => LET resp == respQ'[Len(respQ')]
           cur == get_cur_seq_no(db)
           rows == C37_Range(db) \cap CmdIds(db)
           inner == IF C37_Base(db) <= cur
                    THEN \E i \in C37_Range(db) \ CmdIds(db) :
                            \E j \in rows : i < j
                    ELSE \E i \in C37_Range(db) \ CmdIds(db) :
                            \E j \in rows : j < i
       IN /\ inner => resp.type = "OpenErr" /\ resp.err = "CannotRestoreModel"
          /\ C37_Range(db) \subseteq CmdIds(db)
                => /\ resp.type = "OpenOk"
                   /\ Deserialize(resp.serialized_model) = C37_Expected(db)

C37_InnerGapsDetected == [][C37_InnerGapStep]_vars

\* The response types that answer a request type.
C38_Answers(req) ==
    CASE req = "Open" -> {"OpenOk", "OpenErr"}
      [] req = "AddCmd" -> {"AddCmdOk", "AddCmdErr"}
      [] req = "Undo" -> {"UndoOk", "UndoErr"}
      [] req = "Redo" -> {"RedoOk", "RedoErr"}
      [] req = "Close" -> {"CloseOk", "CloseErr"}

\* C38: every step of the worker takes one request and appends exactly one
\* response, of the kind that answers the request, after the responses
\* already sent.
C38_WorkerStep ==
    (SmallServerAddCmd \/ ServerOpen \/ ServerUndo \/ ServerRedo)
    => /\ cmdQ' = Tail(cmdQ)
       /\ Len(respQ') = Len(respQ) + 1
       /\ SubSeq(respQ', 1, Len(respQ)) = respQ
       /\ respQ'[Len(respQ')].type \in C38_Answers(Head(cmdQ).type)

\* C38: the worker sends exactly one response for every request, in request
\* order, also for the AddCmd whose id reaches MAX_COMMAND_ID.
C38_OneResponsePerRequest == [][C38_WorkerStep]_vars

\* C39: an undo() or redo() called when the worker thread has ended does not
\* go into the wait for a reply; when it has a request to send it ends in
\* the panic of the failed send.
C39_CallAfterDeathStep ==
    /\ ((UndoCall \/ RedoCall) /\ srvState = "NoThread")
          => pc' \in {"idle", "panicked"}
    /\ (UndoCall /\ srvState = "NoThread" /\ can_undo)
          => /\ pc' = "panicked"
             /\ lastOp' = Ret("undo", FALSE, 0, "SendError")
    /\ (RedoCall /\ srvState = "NoThread" /\ can_redo)
          => /\ pc' = "panicked"
             /\ lastOp' = Ret("redo", FALSE, 0, "SendError")

C39_InFlightCallReturns ==
    (pc \in {"wait_undo", "wait_redo"} /\ srvState = "NoThread")
        ~> (pc \in {"idle", "panicked"})

\* C40: a store reopened after an error-free session, with whatever undo
\* limit, holds the model the facade had at the drop.
C40_Restored ==
    (pc = "idle" /\ lastOp.op = "open" /\ expectModel # None)
        => model \in expectModel

\* C40: the reopen succeeds, and a processed add leaves at most undo_limit
\* commands on disk, undo_limit being the limit of the running session.
C40_SessionStep ==
    /\ (ServerOpen /\ ~lock /\ expectModel # None) => srvState' = "Loaded"
    /\ (ServerAddCmd /\ srvState = "Loaded")
          => Cardinality(CmdIds(db')) <= undo_limit
    /\ (ServerUndo \/ ServerRedo) => CmdIds(db') = CmdIds(db)

\* C40: with both channels empty the client's min_seq_no is the least
\* command id on disk.
C40_MinMatches ==
    Quiescent => min_seq_no = IF CmdIds(db) = {} THEN None
                              ELSE Some(Min(CmdIds(db)))

\* C40: with both channels empty the client's max_seq_no is the greatest
\* command id on disk.
C40_MaxMatches ==
    Quiescent => max_seq_no = IF CmdIds(db) = {} THEN None
                              ELSE Some(Max(CmdIds(db)))

\* C40: changing the undo limit between sessions is safe.
C40_LimitChangeSafe ==
    /\ []C40_Restored
    /\ [][C40_SessionStep]_vars
    /\ []C40_MinMatches
    /\ []C40_MaxMatches

\* C40 without the cached max_seq_no.
C40_SafeButForMax ==
    /\ []C40_Restored
    /\ [][C40_SessionStep]_vars
    /\ []C40_MinMatches

====
